---- MODULE Spec2Model ----
(***************************************************************************)
(* QA-AI-Agent: identity normalizer, record reconciler, recurring-failure  *)
(* history and category rule engine, modelled from the Python sources.     *)
(*                                                                         *)
(* Python strings are sequences of one-character strings, so that split,   *)
(* join, strip and lower are computed the way the code computes them.      *)
(* Python's None is the one-element sequence None, which is no string.     *)
(***************************************************************************)
EXTENDS Integers, Sequences, FiniteSets, TLC

VARIABLES
    pc,                    \* position of the running operation
    name,                  \* TestNameNormalizer.normalize: its argument
    normalized,            \* normalize(name)
    renormalized,          \* normalize(normalize(name))
    db_results,            \* get_full_report_data_from_db: the input rows
    execution_logs,        \* dict test name -> log, in insertion order
    durations,             \* dict test name -> seconds, in insertion order
    row_idx,               \* number of rows of db_results already iterated
    test_results_by_name,  \* dict testcaseName -> TestResult, in insertion order
    matched_logs,          \* counter of the reconciler
    matched_durations,     \* counter of the reconciler
    test_results,          \* the returned record list
    FLAKY_TESTS_LAST_RUNS, \* Config.FLAKY_TESTS_LAST_RUNS (window size W)
    table_rows,            \* rows stored for the test, newest first (ORDER BY id DESC)
    min_occurrences,       \* argument of detect_recurring_failures
    recurring,             \* list returned by detect_recurring_failures
    failure,               \* FailureClassification given to classify
    category,              \* value returned by CategoryRuleEngine.classify
    log_lines,             \* _extract_execution_log: the text lines of the test output block
    test_method,           \* method_name: the test the isolator is asked for
    full_log,              \* the joined lines
    start_idx,             \* 0-based start of the span
    end_idx,               \* 0-based end of the span, before clamping
    isolated_log,          \* the returned text
    search_name,           \* the name find_matching_test searches for
    result_list,           \* the TestResult records it searches
    matching_test,         \* the record it returned, or None
    task_of,               \* the task that owns each testcaseName
    task_idx,              \* how many of its rows each task has reconciled
    task_results,          \* the test_results_by_name dict of each task
    merged_results,        \* the dicts of the tasks merged by key, or None
    deduplicated_classifications,\* the failures main classifies one after the other
    test_data_cache,       \* the combined log of each test, by normalized name
    engine_rules,          \* the rule list of the engine
    returned_categories,   \* the failure and the category of each call of classify
    report_name,           \* the report name a table is looked up for
    table_name,            \* the table name returned, or None
    stored_history,        \* detect_recurring_failures: the dict test -> executions of the database
    failure_details,       \* dict test -> root_causes collected by the details loop
    recurring_failures,    \* detect_recurring_failures: the returned entries
    sorted_recurring_failures, \* the rendered order of the report
    status_token,          \* the testStatus stored for one execution of a test
    converted_status,      \* the status db_row_to_test_result gives its record
    token_history,         \* the history vector built from the execution
    token_failure_count    \* the failure count of the execution

vars == <<pc, name, normalized, renormalized, db_results, execution_logs,
          durations, row_idx, test_results_by_name, matched_logs,
          matched_durations, test_results, FLAKY_TESTS_LAST_RUNS, table_rows,
          min_occurrences, recurring, failure, category,
          log_lines, test_method, full_log, start_idx, end_idx, isolated_log,
          search_name, result_list, matching_test,
          task_of, task_idx, task_results, merged_results,
          deduplicated_classifications, test_data_cache, engine_rules, returned_categories,
          report_name, table_name,
          stored_history, failure_details, recurring_failures, sorted_recurring_failures,
          status_token, converted_status, token_history, token_failure_count>>

normalizerVars == <<name, normalized, renormalized>>
reconcilerVars == <<db_results, execution_logs, durations, row_idx,
                    test_results_by_name, matched_logs, matched_durations,
                    test_results>>
historyVars == <<FLAKY_TESTS_LAST_RUNS, table_rows, min_occurrences, recurring>>
engineVars == <<failure, category>>
isolatorVars == <<log_lines, test_method, full_log, start_idx, end_idx, isolated_log>>
matcherVars == <<search_name, result_list, matching_test>>
taskVars == <<task_of, task_idx, task_results, merged_results>>
batchVars == <<deduplicated_classifications, test_data_cache, engine_rules, returned_categories>>
tableVars == <<report_name, table_name>>
patternVars == <<stored_history, failure_details, recurring_failures, sorted_recurring_failures>>
statusVars == <<status_token, converted_status, token_history, token_failure_count>>

(***************************************************************************)
(* Bounds of the model.                                                    *)
(***************************************************************************)
MaxNameLen == 5

(***************************************************************************)
(* Python values and string primitives.                                    *)
(***************************************************************************)
None == <<"None">>

Range(s) == {s[i] : i \in 1..Len(s)}

\* Python truthiness of a str-or-None value: None and "" are falsy.
Truthy(v) == v # None /\ v # <<>>

RECURSIVE SplitFrom(_, _, _)
SplitFrom(s, cur, acc) ==
    IF s = <<>> THEN Append(acc, cur)
    ELSE IF Head(s) = "." THEN SplitFrom(Tail(s), <<>>, Append(acc, cur))
    ELSE SplitFrom(Tail(s), Append(cur, Head(s)), acc)

\* s.split('.'): one part more than there are dots, empty parts kept.
split(s) == SplitFrom(s, <<>>, <<>>)

RECURSIVE join(_)
\* '.'.join(parts)
join(parts) ==
    IF parts = <<>> THEN <<>>
    ELSE IF Len(parts) = 1 THEN parts[1]
    ELSE parts[1] \o <<".">> \o join(Tail(parts))

RECURSIVE lstrip(_)
lstrip(s) == IF s # <<>> /\ Head(s) = " " THEN lstrip(Tail(s)) ELSE s

RECURSIVE rstrip(_)
rstrip(s) ==
    IF s # <<>> /\ s[Len(s)] = " " THEN rstrip(SubSeq(s, 1, Len(s) - 1)) ELSE s

\* s.strip()
strip(s) == rstrip(lstrip(s))

(***************************************************************************)
(* Identity Normalizer (src/utils.py).                                     *)
(***************************************************************************)
RECURSIVE CleanedParts(_, _, _)
\* The while loop of remove_duplicate_class_name: parts[i] is kept, and when
\* the next part equals it the next part is skipped.
CleanedParts(parts, i, cleaned_parts) ==
    IF i > Len(parts) THEN cleaned_parts
    ELSE CleanedParts(parts,
                      IF i + 1 <= Len(parts) /\ parts[i] = parts[i + 1]
                          THEN i + 2 ELSE i + 1,
                      Append(cleaned_parts, parts[i]))

\* remove_duplicate_class_name that removes nothing.
remove_duplicate_class_name_kept(class_name) == class_name

remove_duplicate_class_name(class_name) ==
    IF ~Truthy(class_name) \/ "." \notin Range(class_name) THEN class_name
    ELSE LET parts == split(class_name)
         IN  IF Len(parts) < 2 THEN class_name
             ELSE join(CleanedParts(parts, 1, <<>>))

normalize(n) ==
    IF ~Truthy(n) THEN <<>>
    ELSE strip(remove_duplicate_class_name(n))

\* TestNameNormalizer.match
match(name1, name2) == normalize(name1) = normalize(name2)

NameChars == {"a", "b", ".", " "}

RECURSIVE StringsUpTo(_, _)
StringsUpTo(chars, n) ==
    IF n = 0 THEN {<<>>}
    ELSE LET shorter == StringsUpTo(chars, n - 1)
         IN  shorter \cup {Append(s, c) : s \in shorter, c \in chars}

\* The names of the docstring's examples, with one letter per segment:
\* "a.b.c.c", "a.b.c.c.m" and "x.x".
ExampleNames ==
    {<<"a", ".", "b", ".", "c", ".", "c">>,
     <<"a", ".", "b", ".", "c", ".", "c", ".", "m">>,
     <<"x", ".", "x">>}

Names == StringsUpTo(NameChars, MaxNameLen) \cup ExampleNames

(***************************************************************************)
(* Letter case (str.upper, str.lower).                                     *)
(***************************************************************************)
LowerLetters == <<"a", "b", "c", "d", "e", "f", "g", "h", "i", "j", "k", "l", "m",
                  "n", "o", "p", "q", "r", "s", "t", "u", "v", "w", "x", "y", "z">>
UpperLetters == <<"A", "B", "C", "D", "E", "F", "G", "H", "I", "J", "K", "L", "M",
                  "N", "O", "P", "Q", "R", "S", "T", "U", "V", "W", "X", "Y", "Z">>

upper_char(c) ==
    IF \E i \in 1..Len(LowerLetters) : LowerLetters[i] = c
        THEN UpperLetters[CHOOSE i \in 1..Len(LowerLetters) : LowerLetters[i] = c]
        ELSE c

lower_char(c) ==
    IF \E i \in 1..Len(UpperLetters) : UpperLetters[i] = c
        THEN LowerLetters[CHOOSE i \in 1..Len(UpperLetters) : UpperLetters[i] = c]
        ELSE c

upper(s) == [i \in 1..Len(s) |-> upper_char(s[i])]
lower(s) == [i \in 1..Len(s) |-> lower_char(s[i])]

(***************************************************************************)
(* Python dicts keep insertion order: a dict is a sequence of items with   *)
(* distinct keys; assigning to a present key keeps its position.           *)
(***************************************************************************)
DictHas(d, k) == \E i \in 1..Len(d) : d[i].key = k
DictGet(d, k) == d[CHOOSE i \in 1..Len(d) : d[i].key = k].value
DictSet(d, k, v) ==
    IF DictHas(d, k)
        THEN [i \in 1..Len(d) |-> IF d[i].key = k THEN [key |-> k, value |-> v] ELSE d[i]]
        ELSE Append(d, [key |-> k, value |-> v])
DictValues(d) == [i \in 1..Len(d) |-> d[i].value]

(***************************************************************************)
(* Parsers: TestResult and the conversion of a database row                *)
(* (src/parsers/models.py, src/parsers/data_builder.py).                   *)
(***************************************************************************)
PASS == "PASS"
FAIL == "FAIL"
SKIP == "SKIP"
ERROR == "ERROR"

\* Durations are written as their decimal digits; 0.0 is Zero.
Zero == <<"0">>

\* TestResult.full_name
full_name(result) ==
    remove_duplicate_class_name(result.class_name) \o <<".">> \o result.method_name

\* The status of a row: testStatus upper-cased and stripped, then looked up in
\* the synonym lists; an unknown token is PASS.
ParseStatus(testStatus) ==
    LET status_str == strip(upper(testStatus))
    IN  IF status_str \in {<<"P", "A", "S", "S">>, <<"P", "A", "S", "S", "E", "D">>,
                           <<"S", "U", "C", "C", "E", "S", "S">>, <<"O", "K">>}
            THEN PASS
        ELSE IF status_str \in {<<"F", "A", "I", "L">>, <<"F", "A", "I", "L", "E", "D">>,
                                <<"F", "A", "I", "L", "U", "R", "E">>}
            THEN FAIL
        ELSE IF status_str \in {<<"E", "R", "R", "O", "R">>,
                                <<"E", "R", "R", "O", "R", "E", "D">>}
            THEN ERROR
        ELSE IF status_str \in {<<"S", "K", "I", "P">>,
                                <<"S", "K", "I", "P", "P", "E", "D">>}
            THEN SKIP
        ELSE PASS

\* db_row_to_test_result raises: ValueError on a missing name, AttributeError
\* when testStatus is NULL (None has no upper()).
db_row_to_test_result_raises(db_row) ==
    \/ ~Truthy(db_row.testcaseName)
    \/ db_row.testStatus = None

\* Mutant of db_row_to_test_result: the log is stored with failing records
\* only.
db_row_to_test_result_log_of_failures(db_row, execution_log, duration) ==
    LET parts == split(db_row.testcaseName)
    IN  [class_name |-> IF Len(parts) >= 2
                            THEN join(SubSeq(parts, 1, Len(parts) - 1)) ELSE <<>>,
         method_name |-> IF Len(parts) >= 2
                            THEN parts[Len(parts)] ELSE db_row.testcaseName,
         status |-> ParseStatus(db_row.testStatus),
         duration_seconds |-> IF duration # None THEN duration ELSE Zero,
         execution_log |-> IF ParseStatus(db_row.testStatus) \in {FAIL, ERROR}
                               THEN execution_log ELSE None]

db_row_to_test_result(db_row, execution_log, duration) ==
    LET parts == split(db_row.testcaseName)
    IN  [class_name |-> IF Len(parts) >= 2
                            THEN join(SubSeq(parts, 1, Len(parts) - 1)) ELSE <<>>,
         method_name |-> IF Len(parts) >= 2
                            THEN parts[Len(parts)] ELSE db_row.testcaseName,
         status |-> ParseStatus(db_row.testStatus),
         duration_seconds |-> IF duration # None THEN duration ELSE Zero,
         execution_log |-> execution_log]

RECURSIVE FirstByMethod(_, _, _)
\* Strategy 4: the first item, in dict order, whose last name part equals the
\* method name, ignoring case.
FirstByMethod(d, i, method_lower) ==
    IF i > Len(d) THEN None
    ELSE LET html_parts == split(d[i].key)
         IN  IF lower(html_parts[Len(html_parts)]) = method_lower
                 THEN d[i].value
                 ELSE FirstByMethod(d, i + 1, method_lower)

\* _find_matching_execution_log and _find_matching_duration: the same four
\* strategies over the dict they are given.
find_matching(testcase_name, d) ==
    IF d = <<>> THEN None
    ELSE IF DictHas(d, testcase_name) THEN DictGet(d, testcase_name)
    ELSE LET parts == split(testcase_name)
         IN  IF Len(parts) < 2 THEN None
             ELSE LET class_method == join(SubSeq(parts, Len(parts) - 1, Len(parts)))
                      class_part == parts[Len(parts) - 1]
                      method_name == parts[Len(parts)]
                      cleaned_class_method ==
                          remove_duplicate_class_name(class_part) \o <<".">> \o method_name
                  IN  IF DictHas(d, class_method) THEN DictGet(d, class_method)
                      ELSE IF DictHas(d, cleaned_class_method)
                          THEN DictGet(d, cleaned_class_method)
                      ELSE FirstByMethod(d, 1, lower(method_name))

find_matching_execution_log(testcase_name, logs) == find_matching(testcase_name, logs)
find_matching_duration(testcase_name, durs) == find_matching(testcase_name, durs)

\* Python truthiness of an Optional[float]: None and 0.0 are falsy.
TruthyNumber(v) == v # None /\ v # Zero

\* Mutant of should_replace: a candidate with a log replaces the entry
\* whether or not the entry has one.
should_replace_any_log(execution_log, test_result, existing) ==
    IF Truthy(execution_log) THEN TRUE
    ELSE test_result.status \in {FAIL, ERROR} /\ existing.status = PASS

\* Mutant of should_replace: only a gained log replaces the entry; the status
\* precedence is lost.
should_replace_log_only(execution_log, test_result, existing) ==
    Truthy(execution_log) /\ ~Truthy(existing.execution_log)

\* The decision of the duplicate branch of get_full_report_data_from_db.
should_replace(execution_log, test_result, existing) ==
    IF Truthy(execution_log) /\ ~Truthy(existing.execution_log) THEN TRUE
    ELSE IF test_result.status \in {FAIL, ERROR} /\ existing.status = PASS THEN TRUE
    ELSE IF Truthy(execution_log) /\ Truthy(existing.execution_log)
        THEN test_result.status \in {FAIL, ERROR} /\ existing.status = PASS
    ELSE FALSE

(***************************************************************************)
(* Idle values of the components a specification does not run.             *)
(***************************************************************************)
NormalizerIdle ==
    /\ name = <<>>
    /\ normalized = None
    /\ renormalized = None

ReconcilerIdle ==
    /\ db_results = <<>>
    /\ execution_logs = <<>>
    /\ durations = <<>>
    /\ row_idx = 0
    /\ test_results_by_name = <<>>
    /\ matched_logs = 0
    /\ matched_durations = 0
    /\ test_results = None

HistoryIdle ==
    /\ FLAKY_TESTS_LAST_RUNS = 10
    /\ table_rows = <<>>
    /\ min_occurrences = 0
    /\ recurring = None

EngineIdle ==
    /\ failure = None
    /\ category = None

IsolatorIdle ==
    /\ log_lines = <<>>
    /\ test_method = None
    /\ full_log = None
    /\ start_idx = 0
    /\ end_idx = 0
    /\ isolated_log = None

MatcherIdle ==
    /\ search_name = None
    /\ result_list = <<>>
    /\ matching_test = None

TasksIdle ==
    /\ task_of = <<>>
    /\ task_idx = <<>>
    /\ task_results = <<>>
    /\ merged_results = None

BatchIdle ==
    /\ deduplicated_classifications = <<>>
    /\ test_data_cache = <<>>
    /\ engine_rules = <<>>
    /\ returned_categories = <<>>

TableIdle ==
    /\ report_name = None
    /\ table_name = None

PatternIdle ==
    /\ stored_history = <<>>
    /\ failure_details = <<>>
    /\ recurring_failures = <<>>
    /\ sorted_recurring_failures = <<>>

StatusIdle ==
    /\ status_token = None
    /\ converted_status = ""
    /\ token_history = <<>>
    /\ token_failure_count = 0

(***************************************************************************)
(* Specification of the reconciler: get_full_report_data_from_db iterates  *)
(* db_results row by row and returns the values of test_results_by_name.   *)
(***************************************************************************)
MaxRows == 3

n_f_f_t == <<"f", ".", "f", ".", "t">>
n_f_t == <<"f", ".", "t">>
n_g_T == <<"g", ".", "T">>

TestcaseNames == {n_f_f_t, n_f_t}

s_PASSED == <<"P", "A", "S", "S", "E", "D">>
s_failed == <<"f", "a", "i", "l", "e", "d", " ">>
s_ERROR == <<"E", "R", "R", "O", "R">>
s_SKIPPED == <<"S", "K", "I", "P", "P", "E", "D">>
s_bogus == <<"b", "o", "g", "u", "s">>

StatusTokens == {s_PASSED, s_failed, s_ERROR, s_SKIPPED, s_bogus, None}

\* The rows a query can return: a named row with any status token, or a row
\* without a name.
DbRows ==
    [testcaseName : TestcaseNames, testStatus : StatusTokens]
        \cup {[testcaseName |-> <<>>, testStatus |-> s_failed]}

RECURSIVE SeqsUpTo(_, _)
SeqsUpTo(S, n) ==
    IF n = 0 THEN {<<>>}
    ELSE LET shorter == SeqsUpTo(S, n - 1)
         IN  shorter \cup {Append(q, x) : q \in {r \in shorter : Len(r) = n - 1}, x \in S}

the_log == <<"l", "o", "g">>

ExecutionLogs == {<<>>,
                  <<[key |-> n_f_t, value |-> the_log]>>,
                  <<[key |-> n_g_T, value |-> the_log]>>}

Durations == {<<>>, <<[key |-> n_f_t, value |-> <<"2">>]>>}

InitReconcile ==
    /\ pc = "rows"
    /\ db_results \in SeqsUpTo(DbRows, MaxRows)
    /\ execution_logs \in ExecutionLogs
    /\ durations \in Durations
    /\ row_idx = 0
    /\ test_results_by_name = <<>>
    /\ matched_logs = 0
    /\ matched_durations = 0
    /\ test_results = None
    /\ NormalizerIdle
    /\ HistoryIdle
    /\ EngineIdle
    /\ IsolatorIdle
    /\ MatcherIdle
    /\ TasksIdle
    /\ BatchIdle
    /\ TableIdle
    /\ PatternIdle
    /\ StatusIdle

\* The row the loop is at, and what the loop body computes from it.
CurrentRow == db_results[row_idx + 1]
CurrentLog == find_matching_execution_log(CurrentRow.testcaseName, execution_logs)
CurrentDuration == find_matching_duration(CurrentRow.testcaseName, durations)
CurrentResult == db_row_to_test_result(CurrentRow, CurrentLog, CurrentDuration)

\* Mutant of SkipRow: the loop ends at a row without a name.
SkipRowAborts ==
    /\ pc = "rows"
    /\ row_idx < Len(db_results)
    /\ ~Truthy(CurrentRow.testcaseName)
    /\ test_results' = DictValues(test_results_by_name)
    /\ pc' = "returned"
    /\ UNCHANGED <<db_results, execution_logs, durations, row_idx,
                   test_results_by_name, matched_logs, matched_durations,
                   normalizerVars, historyVars, engineVars,
                   isolatorVars, matcherVars, taskVars,
                   batchVars,
                   tableVars,
                   patternVars,
                   statusVars>>

\* A row without a name is skipped before anything is looked up.
SkipRow ==
    /\ pc = "rows"
    /\ row_idx < Len(db_results)
    /\ ~Truthy(CurrentRow.testcaseName)
    /\ row_idx' = row_idx + 1
    /\ UNCHANGED <<pc, db_results, execution_logs, durations, test_results_by_name,
                   matched_logs, matched_durations, test_results,
                   normalizerVars, historyVars, engineVars,
                   isolatorVars,
                   matcherVars,
                   taskVars,
                   batchVars,
                   tableVars,
                   patternVars,
                   statusVars>>

\* The conversion raises: the except clause logs and goes on to the next row.
RowRaises ==
    /\ pc = "rows"
    /\ row_idx < Len(db_results)
    /\ Truthy(CurrentRow.testcaseName)
    /\ db_row_to_test_result_raises(CurrentRow)
    /\ row_idx' = row_idx + 1
    /\ UNCHANGED <<pc, db_results, execution_logs, durations, test_results_by_name,
                   matched_logs, matched_durations, test_results,
                   normalizerVars, historyVars, engineVars,
                   isolatorVars,
                   matcherVars,
                   taskVars,
                   batchVars,
                   tableVars,
                   patternVars,
                   statusVars>>

\* First row of a testcaseName: it is stored.
InsertRow ==
    /\ pc = "rows"
    /\ row_idx < Len(db_results)
    /\ Truthy(CurrentRow.testcaseName)
    /\ ~db_row_to_test_result_raises(CurrentRow)
    /\ ~DictHas(test_results_by_name, CurrentRow.testcaseName)
    /\ test_results_by_name' =
           DictSet(test_results_by_name, CurrentRow.testcaseName, CurrentResult)
    /\ matched_logs' = IF Truthy(CurrentLog) THEN matched_logs + 1 ELSE matched_logs
    /\ matched_durations' =
           IF TruthyNumber(CurrentDuration) THEN matched_durations + 1
           ELSE matched_durations
    /\ row_idx' = row_idx + 1
    /\ UNCHANGED <<pc, db_results, execution_logs, durations, test_results,
                   normalizerVars, historyVars, engineVars,
                   isolatorVars,
                   matcherVars,
                   taskVars,
                   batchVars,
                   tableVars,
                   patternVars,
                   statusVars>>

\* A later row of a stored testcaseName: it replaces the entry or is dropped.
DuplicateRow ==
    /\ pc = "rows"
    /\ row_idx < Len(db_results)
    /\ Truthy(CurrentRow.testcaseName)
    /\ ~db_row_to_test_result_raises(CurrentRow)
    /\ DictHas(test_results_by_name, CurrentRow.testcaseName)
    /\ LET existing == DictGet(test_results_by_name, CurrentRow.testcaseName)
       IN  IF should_replace(CurrentLog, CurrentResult, existing)
               THEN /\ test_results_by_name' =
                           DictSet(test_results_by_name, CurrentRow.testcaseName,
                                   CurrentResult)
                    /\ matched_logs' =
                           IF Truthy(CurrentLog) /\ ~Truthy(existing.execution_log)
                               THEN matched_logs + 1 ELSE matched_logs
                    /\ matched_durations' =
                           IF TruthyNumber(CurrentDuration)
                              /\ ~TruthyNumber(existing.duration_seconds)
                               THEN matched_durations + 1 ELSE matched_durations
               ELSE UNCHANGED <<test_results_by_name, matched_logs, matched_durations>>
    /\ row_idx' = row_idx + 1
    /\ UNCHANGED <<pc, db_results, execution_logs, durations, test_results,
                   normalizerVars, historyVars, engineVars,
                   isolatorVars,
                   matcherVars,
                   taskVars,
                   batchVars,
                   tableVars,
                   patternVars,
                   statusVars>>

\* After the last row the dict values are returned as the record list.
ReturnResults ==
    /\ pc = "rows"
    /\ row_idx = Len(db_results)
    /\ test_results' = DictValues(test_results_by_name)
    /\ pc' = "returned"
    /\ UNCHANGED <<db_results, execution_logs, durations, row_idx,
                   test_results_by_name, matched_logs, matched_durations,
                   normalizerVars, historyVars, engineVars,
                   isolatorVars,
                   matcherVars,
                   taskVars,
                   batchVars,
                   tableVars,
                   patternVars,
                   statusVars>>

NextReconcile ==
    SkipRow \/ RowRaises \/ InsertRow \/ DuplicateRow \/ ReturnResults

SpecReconcile == InitReconcile /\ [][NextReconcile]_vars

(***************************************************************************)
(* Claims about the reconciler.                                            *)
(***************************************************************************)
FailingStatuses == {FAIL, ERROR}

\* The loop is at a row that converts and whose testcaseName is stored.
AtDuplicate ==
    /\ pc = "rows"
    /\ row_idx < Len(db_results)
    /\ Truthy(CurrentRow.testcaseName)
    /\ ~db_row_to_test_result_raises(CurrentRow)
    /\ DictHas(test_results_by_name, CurrentRow.testcaseName)

\* The input is two convertible rows of one testcaseName.
DuplicatePair ==
    /\ Len(db_results) = 2
    /\ Truthy(db_results[1].testcaseName)
    /\ db_results[1].testcaseName = db_results[2].testcaseName
    /\ ~db_row_to_test_result_raises(db_results[1])
    /\ ~db_row_to_test_result_raises(db_results[2])

RowStatus(i) == ParseStatus(db_results[i].testStatus)

ConvertedRows(k) ==
    {i \in 1..row_idx : /\ db_results[i].testcaseName = k
                        /\ ~db_row_to_test_result_raises(db_results[i])}

\* C3: if at least one row of a test is FAIL or ERROR and its other rows are
\* PASS, the record kept for the test is failing, after every row and in the
\* returned list.
C3_FailureNeverHidden ==
    \A k \in TestcaseNames :
        (/\ \E i \in ConvertedRows(k) : RowStatus(i) \in FailingStatuses
         /\ \A i \in ConvertedRows(k) : RowStatus(i) \in FailingStatuses \cup {PASS})
        => /\ DictHas(test_results_by_name, k)
           /\ DictGet(test_results_by_name, k).status \in FailingStatuses
           /\ pc = "returned" =>
                 \E j \in 1..Len(test_results) :
                     /\ test_results[j] = DictGet(test_results_by_name, k)
                     /\ test_results[j].status \in FailingStatuses

\* C3 witness: three rows of one test, passing, failing, passing, each with
\* an execution log, and the returned record is failing.
C3_Witness ==
    /\ pc = "returned"
    /\ Len(db_results) = 3
    /\ \A i \in 1..3 : db_results[i].testcaseName = n_f_f_t
    /\ RowStatus(1) = PASS /\ db_results[1].testStatus # None
    /\ RowStatus(2) \in FailingStatuses
    /\ RowStatus(3) = PASS /\ db_results[3].testStatus # None
    /\ Truthy(find_matching_execution_log(n_f_f_t, execution_logs))
    /\ Len(test_results) = 1
    /\ test_results[1].status \in FailingStatuses

\* C4: no two returned records have the same normalized full name.
C4_OneRecordPerIdentity ==
    pc = "returned" =>
        \A i, j \in 1..Len(test_results) :
            i # j => normalize(full_name(test_results[i]))
                         # normalize(full_name(test_results[j]))

(***************************************************************************)
(* Recurring failures (src/agent/memory.py): the rows stored for one test, *)
(* the fetch of its last FLAKY_TESTS_LAST_RUNS executions and              *)
(* _detect_recurring_failures_from_db.                                     *)
(***************************************************************************)
MaxExecutions == 12
MaxOddExecutions == 3

\* The length the history vector is padded or truncated to.
HistoryLen == 10

s_FAILED == <<"F", "A", "I", "L", "E", "D">>

\* Status tokens of stored executions; None is a NULL testStatus.
PlainTokens == {s_PASSED, s_FAILED}
OddTokens == {s_failed, s_bogus, None}

WindowSizes == {3, 10, 12}
MinOccurrences == {1, 3}

the_test == n_f_t

FailureWords == {<<"F", "A", "I", "L">>, <<"F", "A", "I", "L", "E", "D">>,
                 <<"E", "R", "R", "O", "R">>, <<"F", "A", "I", "L", "U", "R", "E">>}
PassWords == {<<"P", "A", "S", "S">>, <<"P", "A", "S", "S", "E", "D">>,
              <<"S", "U", "C", "C", "E", "S", "S">>, <<"O", "K">>}

Min(a, b) == IF a <= b THEN a ELSE b

\* rows[:n]
Take(rows, n) == SubSeq(rows, 1, Min(n, Len(rows)))

\* list(reversed(rows))
Reversed(rows) == [i \in 1..Len(rows) |-> rows[Len(rows) + 1 - i]]

\* Mutant of limited_rows: the oldest rows are kept instead of the newest.
limited_rows_oldest(rows, limit_per_test) ==
    SubSeq(rows, Len(rows) + 1 - Min(limit_per_test, Len(rows)), Len(rows))

\* _get_test_execution_history_from_db: rows[:limit_per_test] of the rows of
\* the test, which the query returns newest first.
limited_rows(rows, limit_per_test) == Take(rows, limit_per_test)

\* test_history: a dict with the test as its key when the query returned rows
\* for it, and the empty dict otherwise.
test_history ==
    IF table_rows = <<>> THEN <<>>
    ELSE <<[key |-> the_test,
            value |-> limited_rows(table_rows, FLAKY_TESTS_LAST_RUNS)]>>

\* The first loop's test of an execution (lines 600-604).
CountsAsFailure(e) ==
    /\ Truthy(e.testStatus)
    /\ strip(upper(e.testStatus)) \in FailureWords

\* failure_count of the first loop.
failure_count(executions) ==
    Cardinality({i \in 1..Len(executions) : CountsAsFailure(executions[i])})

\* One element of the history vector (lines 656-675): 0 = fail, 1 = pass.
HistoryValue(e) ==
    IF Truthy(e.testStatus)
        THEN IF strip(upper(e.testStatus)) \in FailureWords THEN 0
             ELSE IF strip(upper(e.testStatus)) \in PassWords THEN 1
             ELSE 1
        ELSE 1

\* history before it is padded or truncated: oldest first.
raw_history(executions) ==
    LET reversed_executions == Reversed(Take(executions, FLAKY_TESTS_LAST_RUNS))
    IN  [i \in 1..Len(reversed_executions) |-> HistoryValue(reversed_executions[i])]

\* Lines 679-689: the newest HistoryLen items, or passes inserted in front.
pad_or_truncate(history) ==
    IF Len(history) > HistoryLen
        THEN SubSeq(history, Len(history) - HistoryLen + 1, Len(history))
    ELSE IF Len(history) < HistoryLen
        THEN [i \in 1..(HistoryLen - Len(history)) |-> 1] \o history
    ELSE history

\* Lines 691-703: the default history of an empty vector.
default_history(history, count) ==
    IF history # <<>> THEN history
    ELSE IF count >= 7 THEN <<0, 0, 0, 0, 0, 0, 0, 0, 0, 0>>
    ELSE IF count >= 5 THEN <<0, 0, 0, 0, 0, 1, 0, 1, 0, 1>>
    ELSE IF count >= 3 THEN <<0, 0, 1, 0, 1, 0, 1, 0, 1, 0>>
    ELSE <<1, 0, 1, 0, 1, 0, 1, 0, 1, 0>>

failures_in_history(history) ==
    Cardinality({i \in 1..Len(history) : history[i] = 0})

\* Mutant of recount: the count of the database rows is kept.
recount_kept(count, history) == count

\* Lines 705-725: occurrences is recomputed from the history vector.
recount(count, history) ==
    IF failures_in_history(history) # count THEN failures_in_history(history)
    ELSE count

Max(a, b) == IF a >= b THEN a ELSE b

\* Lines 756-822: one detail per element of the history vector.  index is
\* the 0-based position; a padded detail has no id.
execution_details(history, executions_list) ==
    LET reversed_executions ==
            IF executions_list # <<>> THEN Reversed(Take(executions_list, 10))
            ELSE <<>>
        actual_execution_count == Len(reversed_executions)
        padding_count == Max(0, Len(history) - actual_execution_count)
    IN  [i \in 1..Len(history) |->
            LET idx == i - 1
                status == IF history[i] = 1 THEN "pass" ELSE "fail"
            IN  IF idx < padding_count
                    THEN [index |-> idx, status |-> status, padded |-> TRUE,
                          id |-> None, testStatus |-> s_PASSED]
                ELSE IF idx - padding_count < Len(reversed_executions)
                    THEN [index |-> idx, status |-> status, padded |-> FALSE,
                          id |-> reversed_executions[idx - padding_count + 1].id,
                          testStatus |-> IF history[i] = 1 THEN s_PASSED ELSE s_FAILED]
                ELSE [index |-> idx, status |-> status, padded |-> TRUE,
                      id |-> None, testStatus |-> None]]

\* The entry appended to recurring for a test of failure_counts.
recurring_entry(test_name, count, executions) ==
    LET history == default_history(pad_or_truncate(raw_history(executions)), count)
    IN  [test_name |-> test_name,
         occurrences |-> recount(count, history),
         history |-> history,
         execution_details |-> execution_details(history, executions)]

\* Mutant of detect_recurring_failures: the filter of lines 845-853 is left
\* out.
detect_recurring_failures_unfiltered(min_occ) ==
    IF test_history = <<>> THEN <<>>
    ELSE LET executions == DictGet(test_history, the_test)
             count == failure_count(executions)
         IN  IF count >= min_occ
                 THEN <<recurring_entry(the_test, count, executions)>>
                 ELSE <<>>

\* _detect_recurring_failures_from_db for the one test queried.
detect_recurring_failures(min_occ) ==
    IF test_history = <<>> THEN <<>>
    ELSE LET executions == DictGet(test_history, the_test)
             count == failure_count(executions)
             found == IF count >= min_occ
                          THEN <<recurring_entry(the_test, count, executions)>>
                          ELSE <<>>
         IN  SelectSeq(found, LAMBDA f : f.occurrences >= min_occ)

InitHistory ==
    /\ pc = "store"
    /\ FLAKY_TESTS_LAST_RUNS \in WindowSizes
    /\ table_rows = <<>>
    /\ min_occurrences = 0
    /\ recurring = None
    /\ NormalizerIdle
    /\ ReconcilerIdle
    /\ EngineIdle
    /\ IsolatorIdle
    /\ MatcherIdle
    /\ TasksIdle
    /\ BatchIdle
    /\ TableIdle
    /\ PatternIdle
    /\ StatusIdle

\* A build stores one more execution of the test; it gets the next id.
StoreExecution ==
    /\ pc = "store"
    /\ Len(table_rows) < MaxExecutions
    /\ \E tok \in PlainTokens \cup OddTokens :
           /\ (tok \in OddTokens
               \/ \E i \in 1..Len(table_rows) : table_rows[i].testStatus \in OddTokens)
                  => Len(table_rows) < MaxOddExecutions
           /\ table_rows' =
                  <<[id |-> Len(table_rows) + 1, testStatus |-> tok]>> \o table_rows
    /\ UNCHANGED <<pc, FLAKY_TESTS_LAST_RUNS, min_occurrences, recurring,
                   normalizerVars, reconcilerVars, engineVars,
                   isolatorVars,
                   matcherVars,
                   taskVars,
                   batchVars,
                   tableVars,
                   patternVars,
                   statusVars>>

DetectRecurringFailures ==
    /\ pc = "store"
    /\ \E m \in MinOccurrences :
           /\ min_occurrences' = m
           /\ recurring' = detect_recurring_failures(m)
    /\ pc' = "detected"
    /\ UNCHANGED <<FLAKY_TESTS_LAST_RUNS, table_rows,
                   normalizerVars, reconcilerVars, engineVars,
                   isolatorVars,
                   matcherVars,
                   taskVars,
                   batchVars,
                   tableVars,
                   patternVars,
                   statusVars>>

NextHistory == StoreExecution \/ DetectRecurringFailures

SpecHistory == InitHistory /\ [][NextHistory]_vars

(***************************************************************************)
(* Claims about the history vector.                                        *)
(***************************************************************************)
\* C5: the history vector of every returned entry has exactly
\* FLAKY_TESTS_LAST_RUNS elements, for every configured window size.
C5_HistoryLengthIsWindow ==
    pc = "detected" =>
        \A i \in 1..Len(recurring) :
            Len(recurring[i].history) = FLAKY_TESTS_LAST_RUNS

\* C6: occurrences of every returned entry is the number of 0 values of its
\* history vector.
C6_OccurrencesCountZeros ==
    pc = "detected" =>
        \A i \in 1..Len(recurring) :
            recurring[i].occurrences =
                Cardinality({j \in 1..Len(recurring[i].history) :
                                 recurring[i].history[j] = 0})

\* C6 witness: an entry is returned whose occurrences differs from the
\* failure count of the fetched rows.
C6_Witness ==
    /\ pc = "detected"
    /\ Len(recurring) = 1
    /\ failure_count(DictGet(test_history, the_test)) # recurring[1].occurrences

\* Twelve stored executions, oldest to newest P,P,F,F,F,F,F,F,F,F,F,F, and a
\* window of 10.
TwelveExecutions ==
    /\ FLAKY_TESTS_LAST_RUNS = 10
    /\ Len(table_rows) = 12
    /\ \A i \in 1..12 :
           table_rows[i].testStatus =
               IF table_rows[i].id <= 2 THEN s_PASSED ELSE s_FAILED

\* C7 as claimed: the vector is the newest 10 executions, unpadded, and the
\* recomputed count is 9.
C7_CountIsNine ==
    (pc = "detected" /\ TwelveExecutions) =>
        /\ Len(recurring) = 1
        /\ recurring[1].history = [j \in 1..10 |-> 0]
        /\ recurring[1].occurrences = 9

\* C7 amended: the vector is the newest 10 executions, unpadded (ten
\* failures), and the recomputed count is 10.
C7_CountIsTen ==
    (pc = "detected" /\ TwelveExecutions) =>
        /\ Len(recurring) = 1
        /\ recurring[1].history = [j \in 1..10 |-> 0]
        /\ recurring[1].occurrences = 10

\* C7 witness: the scenario has been run and returned its entry.
C7_Witness ==
    /\ pc = "detected"
    /\ TwelveExecutions
    /\ Len(recurring) = 1
    /\ recurring[1].occurrences = 10

\* The executions of the test that the query returned, oldest first.
RealExecutions == Reversed(DictGet(test_history, the_test))

\* C11: execution_details of every returned entry is as long as history;
\* with n real executions the first FLAKY_TESTS_LAST_RUNS - n positions are
\* passes marked padded, every later position carries the id of the
\* execution its history value was computed from, oldest first and newest
\* last, and a detail's status is 'fail' exactly when history is 0 there.
C11_DetailsAlignedWithHistory ==
    pc = "detected" =>
        \A e \in 1..Len(recurring) :
            LET history == recurring[e].history
                details == recurring[e].execution_details
                n == Len(RealExecutions)
                pad == FLAKY_TESTS_LAST_RUNS - n
            IN  /\ Len(details) = Len(history)
                /\ \A i \in 1..Len(history) :
                       /\ (details[i].status = "fail") <=> (history[i] = 0)
                       /\ IF i <= pad
                             THEN history[i] = 1 /\ details[i].padded
                             ELSE /\ ~details[i].padded
                                  /\ i - pad <= n
                                  /\ details[i].id = RealExecutions[i - pad].id
                                  /\ history[i] = HistoryValue(RealExecutions[i - pad])
                /\ n > 0 => details[Len(details)].id = RealExecutions[n].id

\* C11 restricted to the window the vector's length was written for: with
\* FLAKY_TESTS_LAST_RUNS = 10 the alignment holds.
C11_AlignedWhenWindowIsTen ==
    (pc = "detected" /\ FLAKY_TESTS_LAST_RUNS = 10) => C11_DetailsAlignedWithHistory

(***************************************************************************)
(* The Category Rule Engine (reporters/category_rules.py).  The texts of a *)
(* failure are strings; "needle in text", str.lower and re.search are      *)
(* computed character by character.                                        *)
(***************************************************************************)
char_at(s, i) == SubSeq(s, i, i)

\* str.lower(), folding the halves of the string
RECURSIVE str_lower(_)
str_lower(s) ==
    IF Len(s) = 0 THEN ""
    ELSE IF Len(s) = 1 THEN lower_char(s)
    ELSE LET half == Len(s) \div 2
         IN  str_lower(SubSeq(s, 1, half)) \o str_lower(SubSeq(s, half + 1, Len(s)))

\* Python's "needle in text"
In(needle, text) ==
    \E i \in 1..(Len(text) - Len(needle) + 1) :
        SubSeq(text, i, i + Len(needle) - 1) = needle

(***************************************************************************)
(* Regular expressions are sequences of tokens: a literal (one of several  *)
(* alternatives), a character class with a quantifier, or a word boundary. *)
(***************************************************************************)
Whitespace == {" ", "\t", "\n", "\r", "\f"}
Digits == {"0", "1", "2", "3", "4", "5", "6", "7", "8", "9"}
Quotes == {"'", "\""}
WordChars == Range(LowerLetters) \cup Range(UpperLetters) \cup Digits \cup {"_"}

lit(s) == [kind |-> "lit", alts |-> {s}]
alt(S) == [kind |-> "lit", alts |-> S]
cls(chars, neg, min, many) ==
    [kind |-> "cls", chars |-> chars, neg |-> neg, min |-> min, many |-> many]
word_boundary == [kind |-> "wb"]

ws_plus == cls(Whitespace, FALSE, 1, TRUE)
ws_star == cls(Whitespace, FALSE, 0, TRUE)
digits_plus == cls(Digits, FALSE, 1, TRUE)
digits_star == cls(Digits, FALSE, 0, TRUE)
quote == cls(Quotes, FALSE, 1, FALSE)
opt_quote == cls(Quotes, FALSE, 0, FALSE)
not_quote_plus == cls(Quotes, TRUE, 1, TRUE)
not_quote_star == cls(Quotes, TRUE, 0, TRUE)
any_star == cls({"\n"}, TRUE, 0, TRUE)

IsWordAt(text, i) == i >= 1 /\ i <= Len(text) /\ char_at(text, i) \in WordChars

InClass(c, t) == IF t.neg THEN c \notin t.chars ELSE c \in t.chars

RECURSIVE MatchFrom(_, _, _, _)
MatchFrom(re, k, text, i) ==
    IF k > Len(re) THEN TRUE
    ELSE LET t == re[k] IN
        CASE t.kind = "lit" ->
                \E a \in t.alts :
                    /\ i + Len(a) - 1 <= Len(text)
                    /\ SubSeq(text, i, i + Len(a) - 1) = a
                    /\ MatchFrom(re, k + 1, text, i + Len(a))
          [] t.kind = "wb" ->
                /\ IsWordAt(text, i - 1) # IsWordAt(text, i)
                /\ MatchFrom(re, k + 1, text, i)
          [] t.kind = "cls" ->
                IF t.many
                    THEN \E j \in (i + t.min)..(Len(text) + 1) :
                            /\ \A m \in i..(j - 1) : InClass(char_at(text, m), t)
                            /\ MatchFrom(re, k + 1, text, j)
                    ELSE \/ t.min = 0 /\ MatchFrom(re, k + 1, text, i)
                         \/ /\ i <= Len(text)
                            /\ InClass(char_at(text, i), t)
                            /\ MatchFrom(re, k + 1, text, i + 1)

\* re.IGNORECASE: the pattern's letters and the text are compared folded.
fold(re) ==
    [k \in 1..Len(re) |->
        IF re[k].kind = "lit"
            THEN [re[k] EXCEPT !.alts = {str_lower(a) : a \in re[k].alts}]
            ELSE re[k]]

\* re.search(pattern, text) and re.search(pattern, text, re.IGNORECASE)
re_search(re, text, IGNORECASE) ==
    LET r == IF IGNORECASE THEN fold(re) ELSE re
        t == IF IGNORECASE THEN str_lower(text) ELSE text
    IN  \E i \in 1..(Len(t) + 1) : MatchFrom(r, 1, t, i)

page_name == <<quote, not_quote_plus, lit("Page"), not_quote_star, quote>>

\* r"['\"]([^'\"]+Page[^'\"]*)['\"]\s+NOT\s+loaded\s+even\s+after\s*[:-]\s*\d+\.?\d*\s+seconds"
re_page_not_loaded_seconds ==
    page_name \o <<ws_plus, lit("NOT"), ws_plus, lit("loaded"), ws_plus,
      lit("even"), ws_plus, lit("after"), ws_star,
      cls({":", "-"}, FALSE, 1, FALSE), ws_star, digits_plus,
      cls({"."}, FALSE, 0, FALSE), digits_star, ws_plus, lit("seconds")>>

\* r"['\"]([^'\"]+Page[^'\"]*)['\"]\s+not\s+loaded\s+even\s+after"
re_page_not_loaded_even_after_lower ==
    page_name \o <<ws_plus, lit("not"), ws_plus, lit("loaded"), ws_plus,
      lit("even"), ws_plus, lit("after")>>

\* r"['\"]([^'\"]+Page[^'\"]*)['\"]\s+(?:NOT|not)\s+loaded\s+even\s+after"
re_page_not_loaded_even_after ==
    page_name \o <<ws_plus, alt({"NOT", "not"}), ws_plus, lit("loaded"),
      ws_plus, lit("even"), ws_plus, lit("after")>>

\* r"['\"]([^'\"]+Page[^'\"]*)['\"]\s+not\s+loaded"
re_page_not_loaded ==
    page_name \o <<ws_plus, lit("not"), ws_plus, lit("loaded")>>

element_is_not_visible ==
    <<lit("Element"), ws_plus, quote, not_quote_plus, quote, ws_plus,
      lit("is"), ws_plus, alt({"NOT", "not"}), ws_plus, lit("visible"),
      ws_plus>>

even_after_waiting_for_seconds ==
    <<lit("even"), ws_plus, lit("after"), ws_plus, lit("waiting"), ws_plus,
      lit("for"), ws_plus, digits_plus, ws_plus, lit("seconds")>>

\* r"Element\s+['\"]([^'\"]+)['\"]\s+is\s+(?:NOT|not)\s+visible\s+even\s+after\s+waiting\s+for\s+\d+\s+seconds"
re_element_not_visible == element_is_not_visible \o even_after_waiting_for_seconds

\* r"Element\s+['\"]([^'\"]+)['\"]\s+is\s+(?:NOT|not)\s+visible\s+and\s+clickable\s+even\s+after\s+waiting\s+for\s+\d+\s+seconds"
re_element_not_visible_and_clickable ==
    element_is_not_visible \o <<lit("and"), ws_plus, lit("clickable"), ws_plus>>
        \o even_after_waiting_for_seconds

waiting_for_element_to_be ==
    <<lit("waiting"), ws_plus, lit("for"), ws_plus, lit("element"), ws_plus,
      lit("to"), ws_plus, lit("be"), ws_plus>>

\* r"TimeoutException.*waiting\s+for\s+element\s+to\s+be\s+(?:clickable|visible)"
re_timeout_waiting_for_element ==
    <<lit("TimeoutException"), any_star>> \o waiting_for_element_to_be
        \o <<alt({"clickable", "visible"})>>

\* r"org\.openqa\.selenium\.TimeoutException.*waiting\s+for\s+element\s+to\s+be\s+(?:clickable|visible)"
re_selenium_timeout_waiting_for_element ==
    <<lit("org.openqa.selenium.TimeoutException"), any_star>>
        \o waiting_for_element_to_be \o <<alt({"clickable", "visible"})>>

\* r"TimeoutException.*Expected\s+condition\s+failed.*waiting\s+for\s+element\s+to\s+be\s+clickable"
re_timeout_expected_condition_failed ==
    <<lit("TimeoutException"), any_star, lit("Expected"), ws_plus,
      lit("condition"), ws_plus, lit("failed"), any_star>>
        \o waiting_for_element_to_be \o <<lit("clickable")>>

\* r"expected\s+['\"]?[^'\"]+['\"]?\s+was\s*[:-]\s*['\"]?[^'\"]+['\"]?\s*\.?\s*but\s+actual\s+is"
re_expected_was_but_actual_is ==
    <<lit("expected"), ws_plus, opt_quote, not_quote_plus, opt_quote, ws_plus,
      lit("was"), ws_star, cls({":", "-"}, FALSE, 1, FALSE), ws_star,
      opt_quote, not_quote_plus, opt_quote, ws_star,
      cls({"."}, FALSE, 0, FALSE), ws_star, lit("but"), ws_plus,
      lit("actual"), ws_plus, lit("is")>>

\* r"expected\s+[^.]*but\s+actual"
re_expected_but_actual ==
    <<lit("expected"), ws_plus, cls({"."}, TRUE, 0, TRUE), lit("but"),
      ws_plus, lit("actual")>>

\* r"classes\s+of\s+actual\s+and\s+expected\s+key"
re_classes_of_actual_and_expected_key ==
    <<lit("classes"), ws_plus, lit("of"), ws_plus, lit("actual"), ws_plus,
      lit("and"), ws_plus, lit("expected"), ws_plus, lit("key")>>

\* r"missing\s+(?:key|field)\s*:"
re_missing_key ==
    <<lit("missing"), ws_plus, alt({"key", "field"}), ws_star, lit(":")>>

\* r"actual\s+json\s+doesn'?t\s+contain\s+all\s+expected\s+keys"
re_actual_json_doesnt_contain ==
    <<lit("actual"), ws_plus, lit("json"), ws_plus, lit("doesn"),
      cls({"'"}, FALSE, 0, FALSE), lit("t"), ws_plus, lit("contain"), ws_plus,
      lit("all"), ws_plus, lit("expected"), ws_plus, lit("keys")>>

\* r"key\s*/\s*value\s+is\s+null"
re_key_value_is_null ==
    <<lit("key"), ws_star, lit("/"), ws_star, lit("value"), ws_plus,
      lit("is"), ws_plus, lit("null")>>

\* r"the\s+following\s+asserts\s+failed"
re_the_following_asserts_failed ==
    <<lit("the"), ws_plus, lit("following"), ws_plus, lit("asserts"), ws_plus,
      lit("failed")>>

\* r"\bexpected\b" and r"\bactual\b"
re_word_expected == <<word_boundary, lit("expected"), word_boundary>>
re_word_actual == <<word_boundary, lit("actual"), word_boundary>>

(***************************************************************************)
(* The rules.  A failure carries the analyzer's root_cause_category,       *)
(* root_cause and recommended_action, and combined_log, the cache's        *)
(* combined log of the failure's test ("" when the test is not cached).    *)
(***************************************************************************)
ElementClickInterceptedRule_matches(f) ==
    LET root_cause == f.root_cause
        combined_text == str_lower(root_cause \o " " \o f.recommended_action)
        execution_log == str_lower(f.combined_log)
    IN  \/ In("ElementClickInterceptedException", root_cause)
        \/ In("elementclickinterceptedexception", combined_text)
        \/ In("ElementClickInterceptedException", f.combined_log)
        \/ In("elementclickinterceptedexception", execution_log)

is_page_load_timeout_pattern(root_cause, execution_log) ==
    \/ re_search(re_page_not_loaded_seconds, root_cause, TRUE)
    \/ re_search(re_page_not_loaded_seconds, execution_log, TRUE)
    \/ re_search(re_page_not_loaded_even_after_lower, str_lower(root_cause), FALSE)
    \/ re_search(re_page_not_loaded_even_after_lower, str_lower(execution_log), FALSE)
    \/ re_search(re_page_not_loaded_even_after, root_cause, TRUE)
    \/ re_search(re_page_not_loaded_even_after, execution_log, TRUE)

is_element_visibility_timeout(root_cause, execution_log) ==
    \/ re_search(re_element_not_visible, root_cause, TRUE)
    \/ re_search(re_element_not_visible, execution_log, TRUE)
    \/ re_search(re_element_not_visible_and_clickable, root_cause, TRUE)
    \/ re_search(re_element_not_visible_and_clickable, execution_log, TRUE)

is_timeout_exception_for_element(root_cause, execution_log) ==
    \/ re_search(re_timeout_waiting_for_element, root_cause, TRUE)
    \/ re_search(re_timeout_waiting_for_element, execution_log, TRUE)
    \/ re_search(re_selenium_timeout_waiting_for_element, root_cause, TRUE)
    \/ re_search(re_selenium_timeout_waiting_for_element, execution_log, TRUE)
    \/ re_search(re_timeout_expected_condition_failed, root_cause, TRUE)
    \/ re_search(re_timeout_expected_condition_failed, execution_log, TRUE)

PageLoadTimeoutRule_matches(f) ==
    \/ is_page_load_timeout_pattern(f.root_cause, f.combined_log)
    \/ is_element_visibility_timeout(f.root_cause, f.combined_log)
    \/ is_timeout_exception_for_element(f.root_cause, f.combined_log)

is_element_locator_text(text) ==
    \/ In("staleelementreferenceexception", text)
    \/ /\ In("nullpointerexception", text)
       /\ \/ In("webelement", text)
          \/ In("getpageelement", text)
          \/ In("gettext()", text)
          \/ In(".gettext()", text)
    \/ /\ In("indexoutofboundsexception", text)
       /\ \/ In("length 0", text)
          \/ In("index 0", text)
          \/ In("out of bounds for length 0", text)
    \/ In("stringindexoutofboundsexception", text)

ElementLocatorExceptionRule_matches(f) ==
    LET root_cause == f.root_cause
        combined_text == str_lower(root_cause \o " " \o f.recommended_action)
        execution_log == str_lower(f.combined_log)
    IN  \/ is_element_locator_text(combined_text)
        \/ is_element_locator_text(execution_log)
        \/ In("StringIndexOutOfBoundsException", root_cause)
        \/ In("StringIndexOutOfBoundsException", f.combined_log)

IllegalArgumentExceptionRule_matches(f) ==
    LET root_cause == f.root_cause
        combined_text == str_lower(root_cause \o " " \o f.recommended_action)
        execution_log == str_lower(f.combined_log)
    IN  \/ In("illegalargumentexception", combined_text)
        \/ In("illegalargumentexception", execution_log)
        \/ In("IllegalArgumentException", root_cause)
        \/ In("IllegalArgumentException", f.combined_log)

is_valid_timeout(f) ==
    LET root_cause == f.root_cause
        root_cause_lower == str_lower(root_cause)
        execution_log == f.combined_log
    IN  \/ re_search(re_page_not_loaded_even_after, root_cause, TRUE)
        \/ re_search(re_page_not_loaded_even_after, execution_log, TRUE)
        \/ In("not loaded even after", root_cause_lower)
        \/ /\ In("not loaded", root_cause_lower)
           /\ In("seconds", root_cause_lower) \/ In("timeout", root_cause_lower)
        \/ re_search(re_page_not_loaded, root_cause_lower, TRUE)
        \/ is_element_visibility_timeout(root_cause, execution_log)
        \/ is_timeout_exception_for_element(root_cause, execution_log)

\* The filter rule that never fires.
NonPageLoadTimeoutFilterRule_never(f) == FALSE

NonPageLoadTimeoutFilterRule_matches(f) ==
    IF f.root_cause_category # "TIMEOUT" THEN FALSE ELSE ~is_valid_timeout(f)

is_clearly_not_assertion(f) ==
    LET assertion_text ==
            str_lower(f.root_cause \o " " \o f.recommended_action \o " " \o f.combined_log)
    IN  \/ In("nosuchelementexception", assertion_text)
        \/ In("elementclickinterceptedexception", assertion_text)
        \/ In("staleelementreferenceexception", assertion_text)
        \/ In("timeoutexception", assertion_text)
        \/ In("webdriverexception", assertion_text)
        \/ re_search(re_page_not_loaded_even_after, f.root_cause, TRUE)
        \/ re_search(re_page_not_loaded_even_after, f.combined_log, TRUE)
        \/ In("not loaded even after", assertion_text)
        \/ In("not loaded even after", str_lower(f.combined_log))

is_valid_assertion(f) ==
    LET assertion_text ==
            str_lower(f.root_cause \o " " \o f.recommended_action \o " " \o f.combined_log)
    IN  \/ re_search(re_expected_was_but_actual_is, assertion_text, TRUE)
        \/ re_search(re_expected_but_actual, assertion_text, TRUE)
        \/ re_search(re_classes_of_actual_and_expected_key, assertion_text, TRUE)
        \/ re_search(re_missing_key, assertion_text, TRUE)
        \/ re_search(re_actual_json_doesnt_contain, assertion_text, TRUE)
        \/ re_search(re_key_value_is_null, assertion_text, TRUE)
        \/ re_search(re_the_following_asserts_failed, assertion_text, TRUE)
        \/ /\ re_search(re_word_expected, assertion_text, TRUE)
           /\ re_search(re_word_actual, assertion_text, TRUE)

AssertionFailureFilterRule_matches(f) ==
    IF f.root_cause_category # "ASSERTION_FAILURE" THEN FALSE
    ELSE IF is_clearly_not_assertion(f) THEN TRUE
    ELSE ~is_valid_assertion(f)

ElementClickInterceptedRule ==
    [name |-> "ElementClickInterceptedRule", priority |-> 12, category |-> "ELEMENT_NOT_FOUND"]
PageLoadTimeoutRule ==
    [name |-> "PageLoadTimeoutRule", priority |-> 15, category |-> "TIMEOUT"]
ElementLocatorExceptionRule ==
    [name |-> "ElementLocatorExceptionRule", priority |-> 11, category |-> "ELEMENT_NOT_FOUND"]
IllegalArgumentExceptionRule ==
    [name |-> "IllegalArgumentExceptionRule", priority |-> 10, category |-> "ELEMENT_NOT_FOUND"]
NonPageLoadTimeoutFilterRule ==
    [name |-> "NonPageLoadTimeoutFilterRule", priority |-> 6, category |-> "OTHER"]
AssertionFailureFilterRule ==
    [name |-> "AssertionFailureFilterRule", priority |-> 5, category |-> "OTHER"]

matches(rule, f) ==
    CASE rule.name = "ElementClickInterceptedRule" -> ElementClickInterceptedRule_matches(f)
      [] rule.name = "PageLoadTimeoutRule" -> PageLoadTimeoutRule_matches(f)
      [] rule.name = "ElementLocatorExceptionRule" -> ElementLocatorExceptionRule_matches(f)
      [] rule.name = "IllegalArgumentExceptionRule" -> IllegalArgumentExceptionRule_matches(f)
      [] rule.name = "NonPageLoadTimeoutFilterRule" -> NonPageLoadTimeoutFilterRule_matches(f)
      [] rule.name = "AssertionFailureFilterRule" -> AssertionFailureFilterRule_matches(f)

\* Tuples compare as in Python: by the first component that differs.
KeyLess(a, b) ==
    \E i \in 1..Len(a) : a[i] < b[i] /\ \A j \in 1..(i - 1) : a[j] = b[j]

\* list.sort(key=..., reverse=True), keys[i] being the key of s[i]:
\* descending and stable.
sort_reverse(s, keys) ==
    LET pos(i) == 1 + Cardinality({j \in 1..Len(s) : KeyLess(keys[i], keys[j])})
                    + Cardinality({j \in 1..(i - 1) : keys[j] = keys[i]})
    IN  [p \in 1..Len(s) |-> s[CHOOSE i \in 1..Len(s) : pos(i) = p]]

priority_key(r) == <<r.priority>>

\* CategoryRuleEngine.__init__
rules ==
    LET listed == <<ElementClickInterceptedRule, PageLoadTimeoutRule,
                    ElementLocatorExceptionRule, IllegalArgumentExceptionRule,
                    NonPageLoadTimeoutFilterRule, AssertionFailureFilterRule>>
    IN  sort_reverse(listed, [i \in 1..Len(listed) |-> priority_key(listed[i])])

\* The table with TIMEOUT and ELEMENT_NOT_FOUND exchanged.
category_priority_exchanged(c) ==
    CASE c = "TIMEOUT" -> 12
      [] c = "ELEMENT_NOT_FOUND" -> 15
      [] c = "ASSERTION_FAILURE" -> 8
      [] c = "ENVIRONMENT_ISSUE" -> 6
      [] c = "OTHER" -> 1
      [] OTHER -> 0

\* category_priority.get(c, 0)
category_priority(c) ==
    CASE c = "TIMEOUT" -> 15
      [] c = "ELEMENT_NOT_FOUND" -> 12
      [] c = "ASSERTION_FAILURE" -> 8
      [] c = "ENVIRONMENT_ISSUE" -> 6
      [] c = "OTHER" -> 1
      [] OTHER -> 0

category_key(r) == <<category_priority(r.category), r.priority>>

matching_rules(f) == SelectSeq(rules, LAMBDA r : matches(r, f))

sorted_matching_rules(f) ==
    LET matching == matching_rules(f)
    IN  sort_reverse(matching, [i \in 1..Len(matching) |-> category_key(matching[i])])

\* Mutant of classify: the merged pre-tag is kept when it outranks the
\* category of the selected rule.
classify_keeping_higher_pre_tag(f) ==
    LET initial == f.root_cause_category
        merged == IF initial = "NETWORK_ISSUE" \/ initial = "ENVIRONMENT_FAILURE"
                    THEN "ENVIRONMENT_ISSUE" ELSE initial
        matching == matching_rules(f)
    IN  IF matching # <<>>
            THEN LET selected == sorted_matching_rules(f)[1].category
                 IN  IF category_priority(merged) > category_priority(selected)
                         THEN merged ELSE selected
        ELSE merged

classify(f) ==
    LET initial == f.root_cause_category
        merged == IF initial = "NETWORK_ISSUE" \/ initial = "ENVIRONMENT_FAILURE"
                    THEN "ENVIRONMENT_ISSUE" ELSE initial
        matching == matching_rules(f)
    IN  IF matching # <<>> THEN sorted_matching_rules(f)[1].category ELSE merged

(***************************************************************************)
(* Specification of the rule engine: a failure as the analyzer produced it *)
(* is classified once.                                                     *)
(***************************************************************************)
Categories ==
    {"ELEMENT_NOT_FOUND", "TIMEOUT", "ASSERTION_FAILURE", "ENVIRONMENT_ISSUE", "OTHER"}

\* root_cause_category is whatever string the model's JSON answer holds.
PreTags == Categories \cup {"NETWORK_ISSUE", "ENVIRONMENT_FAILURE", "DATA_ISSUE", "timeout"}

RootCauses ==
    { "",
      "Connection refused by the service",
      "ElementClickInterceptedException: element click intercepted",
      "elementclickinterceptedexception on submit",
      "'HomePage' NOT loaded even after :- 40.07 seconds",
      "Page not loaded, request timeout",
      "TimeoutException: script timeout",
      "Expected 'state' was :-'true'. But actual is 'false'",
      "StaleElementReferenceException: stale element",
      "NullPointerException in WebElement.getText()",
      "IllegalArgumentException: bound must be positive" }

RecommendedActions ==
    { "Manual review required",
      "Handle IndexOutOfBoundsException: Index 0 out of bounds for length 0" }

CombinedLogs ==
    { "",
      "org.openqa.selenium.TimeoutException: Expected condition failed: waiting for element to be clickable",
      "Element 'HomePage:submit' is NOT visible even after waiting for 30 seconds",
      "java.lang.IllegalArgumentException: bound must be positive",
      "The following asserts failed: expected [1] but found [2]" }

Failures ==
    [root_cause_category : PreTags, root_cause : RootCauses,
     recommended_action : RecommendedActions, combined_log : CombinedLogs]

InitClassify ==
    /\ pc = "analyzed"
    /\ failure \in Failures
    /\ category = None
    /\ NormalizerIdle
    /\ ReconcilerIdle
    /\ HistoryIdle
    /\ IsolatorIdle
    /\ MatcherIdle
    /\ TasksIdle
    /\ BatchIdle
    /\ TableIdle
    /\ PatternIdle
    /\ StatusIdle

Classify ==
    /\ pc = "analyzed"
    /\ category' = classify(failure)
    /\ pc' = "classified"
    /\ UNCHANGED <<failure, normalizerVars, reconcilerVars, historyVars,
                   isolatorVars,
                   matcherVars,
                   taskVars,
                   batchVars,
                   tableVars,
                   patternVars,
                   statusVars>>

NextClassify == Classify

SpecClassify == InitClassify /\ [][NextClassify]_vars

(***************************************************************************)
(* Claims about the rule engine (SpecClassify).                            *)
(***************************************************************************)
Classified == pc = "classified"

\* C8: whatever the pre-tag, the texts and the set of matching rules,
\* classify returns a value of the fixed enumeration of categories.
C8_ReturnsEnumerationValue == Classified => category \in Categories

CategoryOrder ==
    <<"TIMEOUT", "ELEMENT_NOT_FOUND", "ASSERTION_FAILURE", "ENVIRONMENT_ISSUE", "OTHER">>

Rank(c) == CHOOSE i \in 1..Len(CategoryOrder) : CategoryOrder[i] = c

MatchingCategories(f) == {r.category : r \in Range(matching_rules(f))}

RulesMatching(f, c) == {r \in Range(matching_rules(f)) : r.category = c}

\* C9: when rules match, classify returns the category of a matching rule
\* that no other matching rule's category outranks in the order TIMEOUT >
\* ELEMENT_NOT_FOUND > ASSERTION_FAILURE > ENVIRONMENT_ISSUE > OTHER; a
\* failure matching a TIMEOUT rule and an ELEMENT_NOT_FOUND rule is TIMEOUT;
\* and the selected rule has the highest priority of the matching rules of
\* its own category.
C9_HighestCategoryWins ==
    (Classified /\ matching_rules(failure) # <<>>) =>
        LET selected == sorted_matching_rules(failure)[1] IN
        /\ category \in MatchingCategories(failure)
        /\ \A c \in MatchingCategories(failure) : Rank(category) <= Rank(c)
        /\ {"TIMEOUT", "ELEMENT_NOT_FOUND"} \subseteq MatchingCategories(failure)
                => category = "TIMEOUT"
        /\ selected.category = category
        /\ \A r \in RulesMatching(failure, category) : r.priority <= selected.priority

\* A TIMEOUT rule and two ELEMENT_NOT_FOUND rules match the classified failure.
C9_Witness ==
    /\ Classified
    /\ RulesMatching(failure, "TIMEOUT") # {}
    /\ Cardinality(RulesMatching(failure, "ELEMENT_NOT_FOUND")) >= 2
    /\ category = "TIMEOUT"

\* The failure is pre-tagged TIMEOUT or ASSERTION_FAILURE and its texts do
\* not carry the textual signature of that category.
LacksSignature(f) ==
    \/ f.root_cause_category = "TIMEOUT" /\ ~is_valid_timeout(f)
    \/ /\ f.root_cause_category = "ASSERTION_FAILURE"
       /\ is_clearly_not_assertion(f) \/ ~is_valid_assertion(f)

OtherMatchingCategories(f) ==
    {r.category : r \in {m \in Range(matching_rules(f)) :
        m.name \notin {"NonPageLoadTimeoutFilterRule", "AssertionFailureFilterRule"}}}

\* C10 as stated: a failure pre-tagged TIMEOUT or ASSERTION_FAILURE without
\* the signature is classified OTHER, whichever other rules match it.
C10_AlwaysDemotedToOther ==
    (Classified /\ LacksSignature(failure)) => category = "OTHER"

\* C10, amended: a failure pre-tagged TIMEOUT or ASSERTION_FAILURE without
\* the signature never keeps its pre-tag; it is classified OTHER when no
\* rule besides the filter matches it, and otherwise gets the highest-ranked
\* category of the other matching rules.
C10_DemotedUnlessOutranked ==
    (Classified /\ LacksSignature(failure)) =>
        /\ category # failure.root_cause_category
        /\ OtherMatchingCategories(failure) = {} => category = "OTHER"
        /\ OtherMatchingCategories(failure) # {} =>
                /\ category \in OtherMatchingCategories(failure)
                /\ \A c \in OtherMatchingCategories(failure) : Rank(category) <= Rank(c)

\* A failure pre-tagged TIMEOUT without the signature, matched by the filter
\* alone, has been demoted to OTHER.
C10_Witness ==
    /\ Classified
    /\ failure.root_cause_category = "TIMEOUT"
    /\ LacksSignature(failure)
    /\ OtherMatchingCategories(failure) = {}
    /\ category = "OTHER"

\* The pre-tag after NETWORK_ISSUE and ENVIRONMENT_FAILURE are merged into
\* ENVIRONMENT_ISSUE.
MergedPreTag(f) ==
    IF f.root_cause_category \in {"NETWORK_ISSUE", "ENVIRONMENT_FAILURE"}
        THEN "ENVIRONMENT_ISSUE" ELSE f.root_cause_category

FilterMatches(f) ==
    \E r \in Range(matching_rules(f)) :
        r.name \in {"NonPageLoadTimeoutFilterRule", "AssertionFailureFilterRule"}

\* C30: when no filter rule matches, the category classify returns does not
\* rank below the merged pre-tag in the order TIMEOUT > ELEMENT_NOT_FOUND >
\* ASSERTION_FAILURE > ENVIRONMENT_ISSUE > OTHER.
C30_NeverBelowPreTag ==
    (Classified /\ MergedPreTag(failure) \in Categories /\ ~FilterMatches(failure)) =>
        Rank(category) <= Rank(MergedPreTag(failure))

\* C30, amended: when no rule matches, classify returns the merged pre-tag;
\* when rules match, it returns the highest-ranked category of the matching
\* rules, whether or not the pre-tag outranks it.
C30_PreTagKeptUnlessRuleMatches ==
    Classified =>
        LET categories == MatchingCategories(failure)
        IN  /\ categories = {} => category = MergedPreTag(failure)
            /\ categories # {} =>
                    /\ category \in categories
                    /\ \A c \in categories : Rank(category) <= Rank(c)

\* A failure pre-tagged TIMEOUT passes the timeout filter, only rules of
\* ELEMENT_NOT_FOUND match it, and it is classified ELEMENT_NOT_FOUND.
C30_Witness ==
    /\ Classified
    /\ failure.root_cause_category = "TIMEOUT"
    /\ ~FilterMatches(failure)
    /\ MatchingCategories(failure) = {"ELEMENT_NOT_FOUND"}
    /\ category = "ELEMENT_NOT_FOUND"

(***************************************************************************)
(* The Log Isolator (HTMLReportParser._extract_execution_log).  Positions  *)
(* are Python's 0-based offsets into full_log.                        *)
(***************************************************************************)
\* text[a:b] for 0 <= a, 0 <= b
Slice(text, a, b) == SubSeq(text, a + 1, Min(b, Len(text)))

\* The positions (1-based) at which a hit of the tokens k.. of re that
\* begins at i can end; a greedy quantifier takes the last of them.
RECURSIVE MatchEnds(_, _, _, _)
MatchEnds(re, k, text, i) ==
    IF k > Len(re) THEN {i}
    ELSE LET t == re[k] IN
        CASE t.kind = "lit" ->
                UNION {MatchEnds(re, k + 1, text, i + Len(a)) :
                        a \in {b \in t.alts :
                                 /\ i + Len(b) - 1 <= Len(text)
                                 /\ SubSeq(text, i, i + Len(b) - 1) = b}}
          [] t.kind = "wb" ->
                IF IsWordAt(text, i - 1) # IsWordAt(text, i)
                    THEN MatchEnds(re, k + 1, text, i) ELSE {}
          [] t.kind = "cls" ->
                LET last == IF t.many THEN Len(text) + 1 ELSE Min(i + 1, Len(text) + 1)
                IN  UNION {MatchEnds(re, k + 1, text, j) :
                            j \in {n \in (i + t.min)..last :
                                     \A m \in i..(n - 1) : InClass(char_at(text, m), t)}}

SetMin(S) == CHOOSE x \in S : \A y \in S : x <= y
SetMax(S) == CHOOSE x \in S : \A y \in S : x >= y

NoMatch == [found |-> FALSE, start |-> 0, end |-> 0]

\* re.search as a hit object: found, hit.start() and hit.end().
re_match(re, text, IGNORECASE) ==
    LET r == IF IGNORECASE THEN fold(re) ELSE re
        t == IF IGNORECASE THEN str_lower(text) ELSE text
        starts == {i \in 1..(Len(t) + 1) : MatchFrom(r, 1, t, i)}
    IN  IF starts = {} THEN NoMatch
        ELSE LET first == SetMin(starts)
             IN  [found |-> TRUE, start |-> first - 1,
                  end |-> SetMax(MatchEnds(r, 1, t, first)) - 1]

\* The first pattern of the list that the text matches, as a hit object.
RECURSIVE first_match(_, _, _, _)
first_match(patterns, k, text, IGNORECASE) ==
    IF k > Len(patterns) THEN NoMatch
    ELSE LET hit == re_match(patterns[k], text, IGNORECASE)
         IN  IF hit.found THEN hit
             ELSE first_match(patterns, k + 1, text, IGNORECASE)

word_plus == cls(WordChars, FALSE, 1, TRUE)
word_or_dot_plus == cls(WordChars \cup {"."}, FALSE, 1, TRUE)

start_marker_patterns ==
    << <<lit("Method arguments:")>>,
       <<lit("Execution started for testcase")>>,
       <<lit("Execution started for test")>>,
       <<lit("Test Case Details")>> >>

re_execution_of_testcase_ends_here == <<lit("EXECUTION OF TESTCASE ENDS HERE")>>

\* r'org\.openqa\.selenium\.[\w]+Exception:'
re_selenium_exception ==
    <<lit("org.openqa.selenium."), word_plus, lit("Exception:")>>

exception_patterns ==
    << re_selenium_exception,
       <<lit("java.lang."), word_plus, lit("Exception:")>>,
       <<lit("java.lang."), word_plus, lit("Error:")>>,
       <<lit("AssertionError:")>>,
       <<lit("at "), word_or_dot_plus, lit("("), word_or_dot_plus,
         lit(".java:"), digits_plus, lit(")")>> >>

\* r'Method arguments:|Execution started for testcase'
re_next_test == <<alt({"Method arguments:", "Execution started for testcase"})>>

failure_markers ==
    << <<lit("Failure occurred in test")>>,
       <<lit("Total time taken by Test")>> >>

end_marker_patterns ==
    << <<lit("Total time taken by Test")>>,
       <<lit("Failure occurred in test")>>,
       re_selenium_exception >>

\* Mutant of find_start_idx: the earliest hit of any start pattern.
find_start_idx_earliest(log) ==
    LET hits == {re_match(start_marker_patterns[k], log, TRUE) :
                    k \in 1..Len(start_marker_patterns)}
        found == {hit \in hits : hit.found}
    IN  IF found # {} THEN SetMin({hit.start : hit \in found}) ELSE 0

\* start_idx: where the first start pattern that occurs is first found.
find_start_idx(log) ==
    LET hit == first_match(start_marker_patterns, 1, log, TRUE)
    IN  IF hit.found THEN hit.start ELSE 0

\* end_idx when 'EXECUTION OF TESTCASE ENDS HERE' was found and ends at
\* execution_end_pos.
end_idx_after_execution_end(log, execution_end_pos) ==
    LET remaining_after_end == Slice(log, execution_end_pos, Len(log))
        exception_match == first_match(exception_patterns, 1, remaining_after_end, FALSE)
    IN  IF exception_match.found
            THEN LET exception_pos == execution_end_pos + exception_match.end
                     next_test_match ==
                         re_match(re_next_test,
                                  Slice(remaining_after_end, exception_match.end,
                                        Len(remaining_after_end)), TRUE)
                 IN  IF next_test_match.found
                         THEN execution_end_pos + exception_match.end + next_test_match.start
                         ELSE Min(exception_pos + 2000, Len(log))
        ELSE LET failure_match == first_match(failure_markers, 1, remaining_after_end, TRUE)
             IN  IF failure_match.found
                     THEN execution_end_pos + failure_match.end + 1000
                     ELSE Min(execution_end_pos + 5000, Len(log))

\* find_end_idx with the empty span as the fallback.
find_end_idx_empty_fallback(log, start) ==
    LET remaining_log == Slice(log, start, Len(log))
        execution_end_match == re_match(re_execution_of_testcase_ends_here, remaining_log, TRUE)
    IN  IF execution_end_match.found
            THEN end_idx_after_execution_end(log, start + execution_end_match.end)
        ELSE LET hit == first_match(end_marker_patterns, 1, remaining_log, TRUE)
             IN  IF hit.found THEN start + hit.end + 2000
                 ELSE start

find_end_idx(log, start) ==
    LET remaining_log == Slice(log, start, Len(log))
        execution_end_match == re_match(re_execution_of_testcase_ends_here, remaining_log, TRUE)
    IN  IF execution_end_match.found
            THEN end_idx_after_execution_end(log, start + execution_end_match.end)
        ELSE LET hit == first_match(end_marker_patterns, 1, remaining_log, TRUE)
             IN  IF hit.found THEN start + hit.end + 2000
                 ELSE Len(log)

\* '\n'.join(log_lines)
RECURSIVE join_lines(_)
join_lines(lines) ==
    IF lines = <<>> THEN ""
    ELSE IF Len(lines) = 1 THEN lines[1]
    ELSE lines[1] \o "\n" \o join_lines(Tail(lines))

\* _extract_execution_log from log on: the two indices and the text.
extract_execution_log(log) ==
    LET start == find_start_idx(log)
        end == find_end_idx(log, start)
    IN  [start_idx |-> start, end_idx |-> end,
         isolated_log |-> IF start = 0 /\ end = Len(log) THEN log
                          ELSE Slice(log, start, end)]

(***************************************************************************)
(* Specification of the log isolator: the lines of a test's output block   *)
(* are joined and the span of the test is extracted once.                  *)
(***************************************************************************)
MaxLines == 3

first_marker == "Method arguments: [first]"
second_marker == "Method arguments: [second]"

LogLines ==
    { first_marker,
      second_marker,
      "Execution started for testcase second",
      "Test Case Details",
      "step: click submit",
      "EXECUTION OF TESTCASE ENDS HERE",
      "Failure occurred in test",
      "org.openqa.selenium.NoSuchElementException: no such element" }

\* A line of n characters without any marker.
RECURSIVE Filler(_)
Filler(n) ==
    IF n = 0 THEN ""
    ELSE IF n = 1 THEN "x"
    ELSE Filler(n \div 2) \o Filler(n - (n \div 2))

\* Blocks long enough for the spans that end 1000, 2000 or 5000 characters
\* after a marker to end inside the block.
LongBlocks ==
    { <<"step: open", first_marker, "EXECUTION OF TESTCASE ENDS HERE",
        "org.openqa.selenium.NoSuchElementException: no such element",
        Filler(2100), "step: after">>,
      <<"step: open", first_marker, "EXECUTION OF TESTCASE ENDS HERE",
        "Failure occurred in test", Filler(1100), second_marker>>,
      <<"step: open", first_marker, "EXECUTION OF TESTCASE ENDS HERE", Filler(5100)>>,
      <<"step: open", first_marker, "Total time taken by Test: 3 s",
        Filler(2100), second_marker>>,
      <<"step: open", first_marker, "EXECUTION OF TESTCASE ENDS HERE",
        "at pages.Home.open(Home.java:42)", Filler(2100)>>,
      <<Filler(2100), "org.openqa.selenium.NoSuchElementException: no such element",
        Filler(2100)>> }

\* Lines that hold the start phrases, one of them in another case.
StartLines ==
    { first_marker,
      "METHOD ARGUMENTS: [third]",
      "Execution started for testcase second",
      "Execution started for test first",
      "Test Case Details" }

Blocks == SeqsUpTo(LogLines, MaxLines) \cup SeqsUpTo(StartLines, MaxLines) \cup LongBlocks

MethodNames == {"first", "second"}

InitIsolate ==
    /\ pc = "parsed"
    /\ log_lines \in Blocks
    /\ test_method \in MethodNames
    /\ full_log = None
    /\ start_idx = 0
    /\ end_idx = 0
    /\ isolated_log = None
    /\ NormalizerIdle
    /\ ReconcilerIdle
    /\ HistoryIdle
    /\ EngineIdle
    /\ MatcherIdle
    /\ TasksIdle
    /\ BatchIdle
    /\ TableIdle
    /\ PatternIdle
    /\ StatusIdle

ExtractExecutionLog ==
    /\ pc = "parsed"
    /\ LET log == join_lines(log_lines)
           extracted == extract_execution_log(log)
       IN  /\ full_log' = log
           /\ start_idx' = extracted.start_idx
           /\ end_idx' = extracted.end_idx
           /\ isolated_log' = extracted.isolated_log
    /\ pc' = "extracted"
    /\ UNCHANGED <<log_lines, test_method, normalizerVars, reconcilerVars,
                   historyVars, engineVars,
                   matcherVars,
                   taskVars,
                   batchVars,
                   tableVars,
                   patternVars,
                   statusVars>>

NextIsolate == ExtractExecutionLog

SpecIsolate == InitIsolate /\ [][NextIsolate]_vars

(***************************************************************************)
(* Claims about the log isolator (SpecIsolate).                            *)
(***************************************************************************)
Extracted == pc = "extracted"

\* The 0-based offset of the first occurrence of needle in text.
OffsetOf(needle, text) ==
    SetMin({i \in 1..(Len(text) - Len(needle) + 1) :
               SubSeq(text, i, i + Len(needle) - 1) = needle}) - 1

\* The block holds the output of two tests: the first test's section begins
\* the block and the second test's section follows it.
TwoTests ==
    /\ Len(log_lines) >= 2
    /\ log_lines[1] = first_marker
    /\ \E i \in 2..Len(log_lines) : log_lines[i] = second_marker

\* C12: when the block holds two tests' output, each beginning with its own
\* start marker, and the second test is asked for, the returned span begins
\* no earlier than the second test's start marker.
C12_SecondTestSpanStartsAtItsMarker ==
    (Extracted /\ TwoTests /\ test_method = "second") =>
        /\ start_idx >= OffsetOf(second_marker, full_log)
        /\ ~In(first_marker, isolated_log)

StartPhrases ==
    {"method arguments:", "execution started for testcase",
     "execution started for test", "test case details"}

EndPhrases ==
    {"execution of testcase ends here", "total time taken by test",
     "failure occurred in test", "org.openqa.selenium."}

\* The block has no start marker, no end marker and no completion phrase.
NoBoundary(text) ==
    \A phrase \in StartPhrases \cup EndPhrases : ~In(phrase, str_lower(text))

\* C13: the extraction returns a contiguous substring of the block, from
\* start_idx to end_idx clamped to the block, with 0 <= start_idx <= end_idx
\* and start_idx inside the block; a block without any boundary is returned
\* whole.
C13_ContiguousSubstringOrWholeBlob ==
    Extracted =>
        /\ 0 <= start_idx
        /\ start_idx <= end_idx
        /\ start_idx <= Len(full_log)
        /\ isolated_log = SubSeq(full_log, start_idx + 1, Min(end_idx, Len(full_log)))
        /\ NoBoundary(full_log) => isolated_log = full_log

\* C13 witness: a span that starts after the beginning of the block and
\* whose end index lies beyond the block and is clamped to it.
C13_Witness ==
    /\ Extracted
    /\ start_idx > 0
    /\ end_idx > Len(full_log)
    /\ isolated_log = SubSeq(full_log, start_idx + 1, Len(full_log))

\* The executions of the test the detection reads, newest first.
StoredExecutions == limited_rows(table_rows, FLAKY_TESTS_LAST_RUNS)

\* The history vector the code computes from the stored executions.
FinalHistory == pad_or_truncate(raw_history(StoredExecutions))

Returned == recurring # <<>>

\* C16: the test is returned exactly when it has stored executions and the
\* zeros of its final history vector are at least min_occurrences; a returned
\* entry carries that vector and that count, and the threshold on the count
\* of the database rows excludes no test whose recomputed count reaches the
\* minimum.
C16_ReturnedIffRecomputedCountReachesMinimum ==
    pc = "detected" =>
        /\ Returned <=>
              /\ table_rows # <<>>
              /\ failures_in_history(FinalHistory) >= min_occurrences
        /\ Returned =>
              /\ Len(recurring) = 1
              /\ recurring[1].history = FinalHistory
              /\ recurring[1].occurrences = failures_in_history(FinalHistory)
              /\ recurring[1].occurrences >= min_occurrences
        /\ (table_rows # <<>> /\ failure_count(StoredExecutions) < min_occurrences)
              => failures_in_history(FinalHistory) < min_occurrences

\* The count of the database rows reaches the minimum and the recomputed
\* count does not: the test passed the first threshold and is not returned.
C16_Witness ==
    /\ pc = "detected"
    /\ table_rows # <<>>
    /\ failure_count(StoredExecutions) >= min_occurrences
    /\ failures_in_history(FinalHistory) < min_occurrences
    /\ ~Returned

(***************************************************************************)
(* Reconciliation by tasks: each task runs the loop of                     *)
(* get_full_report_data_from_db over the rows of the testcaseNames it      *)
(* owns, on a dict of its own; the dicts are then merged by key.           *)
(***************************************************************************)
\* Mutant of reconcile_row: the dict is keyed by the method name.
reconcile_row_by_method(d, db_row, logs, durs) ==
    LET testcase_name == db_row.testcaseName
        execution_log == find_matching_execution_log(testcase_name, logs)
        duration == find_matching_duration(testcase_name, durs)
    IN  IF ~Truthy(testcase_name) THEN d
        ELSE IF db_row_to_test_result_raises(db_row) THEN d
        ELSE LET test_result == db_row_to_test_result(db_row, execution_log, duration)
                 k == test_result.method_name
             IN  IF ~DictHas(d, k) THEN DictSet(d, k, test_result)
                 ELSE IF should_replace(execution_log, test_result, DictGet(d, k))
                     THEN DictSet(d, k, test_result)
                 ELSE d

\* The body of the loop over db_results, as the dict it leaves.
reconcile_row(d, db_row, logs, durs) ==
    LET testcase_name == db_row.testcaseName
        execution_log == find_matching_execution_log(testcase_name, logs)
        duration == find_matching_duration(testcase_name, durs)
    IN  IF ~Truthy(testcase_name) THEN d
        ELSE IF db_row_to_test_result_raises(db_row) THEN d
        ELSE LET test_result == db_row_to_test_result(db_row, execution_log, duration)
             IN  IF ~DictHas(d, testcase_name)
                     THEN DictSet(d, testcase_name, test_result)
                 ELSE IF should_replace(execution_log, test_result,
                                        DictGet(d, testcase_name))
                     THEN DictSet(d, testcase_name, test_result)
                 ELSE d

\* test_results_by_name after the loop has run over rows.
RECURSIVE reconcile(_, _, _)
reconcile(rows, logs, durs) ==
    IF rows = <<>> THEN <<>>
    ELSE reconcile_row(reconcile(SubSeq(rows, 1, Len(rows) - 1), logs, durs),
                       rows[Len(rows)], logs, durs)

\* The items of d2 put into d1 under their keys.
RECURSIVE merge_by_key(_, _)
merge_by_key(d1, d2) ==
    IF d2 = <<>> THEN d1
    ELSE merge_by_key(DictSet(d1, d2[1].key, d2[1].value), Tail(d2))

Tasks == {1, 2}

n_g_t == <<"g", ".", "t">>

TaskTestcaseNames == {n_f_t, n_f_f_t, n_g_t}

TaskDbRows ==
    [testcaseName : TaskTestcaseNames, testStatus : {s_PASSED, s_failed, s_ERROR}]
        \cup {[testcaseName |-> <<>>, testStatus |-> s_failed]}

TaskExecutionLogs == {<<>>, <<[key |-> n_f_t, value |-> the_log]>>}

\* The rows of task t, in the order of db_results.
TaskRows(t) ==
    SelectSeq(db_results, LAMBDA db_row : task_of[db_row.testcaseName] = t)

\* Each testcaseName is owned by one task; the first name by the first task,
\* the rows without a name by the second.
InitTasks ==
    /\ pc = "tasks"
    /\ db_results \in SeqsUpTo(TaskDbRows, MaxRows)
    /\ execution_logs \in TaskExecutionLogs
    /\ durations = <<>>
    /\ row_idx = 0
    /\ test_results_by_name = <<>>
    /\ matched_logs = 0
    /\ matched_durations = 0
    /\ test_results = None
    /\ task_of \in {f \in [TaskTestcaseNames \cup {<<>>} -> Tasks] :
                        f[n_f_t] = 1 /\ f[<<>>] = 2}
    /\ task_idx = [t \in Tasks |-> 0]
    /\ task_results = [t \in Tasks |-> <<>>]
    /\ merged_results = None
    /\ NormalizerIdle
    /\ HistoryIdle
    /\ EngineIdle
    /\ IsolatorIdle
    /\ MatcherIdle
    /\ BatchIdle
    /\ TableIdle
    /\ PatternIdle
    /\ StatusIdle

\* Task t reconciles its next row into its own dict.
TaskStep(t) ==
    /\ pc = "tasks"
    /\ task_idx[t] < Len(TaskRows(t))
    /\ task_results' =
           [task_results EXCEPT ![t] =
               reconcile_row(task_results[t], TaskRows(t)[task_idx[t] + 1],
                             execution_logs, durations)]
    /\ task_idx' = [task_idx EXCEPT ![t] = task_idx[t] + 1]
    /\ UNCHANGED <<pc, task_of, merged_results>>
    /\ UNCHANGED <<normalizerVars, reconcilerVars, historyVars, engineVars,
                   isolatorVars, matcherVars,
                   batchVars,
                   tableVars,
                   patternVars,
                   statusVars>>

\* Every task is done: the dicts are merged by key.
MergeResults ==
    /\ pc = "tasks"
    /\ \A t \in Tasks : task_idx[t] = Len(TaskRows(t))
    /\ merged_results' = merge_by_key(task_results[1], task_results[2])
    /\ pc' = "merged"
    /\ UNCHANGED <<task_of, task_idx, task_results>>
    /\ UNCHANGED <<normalizerVars, reconcilerVars, historyVars, engineVars,
                   isolatorVars, matcherVars,
                   batchVars,
                   tableVars,
                   patternVars,
                   statusVars>>

NextTasks == (\E t \in Tasks : TaskStep(t)) \/ MergeResults

SpecTasks == InitTasks /\ [][NextTasks]_vars

\* The mapping of a dict: its set of items.
Items(d) == {d[i] : i \in 1..Len(d)}

\* C17: the dicts of tasks that own disjoint testcaseNames, merged by key,
\* are the mapping one pass over all the rows leaves, whatever the
\* interleaving of the tasks.
C17_MergedEqualsSequential ==
    pc = "merged" =>
        Items(merged_results) = Items(reconcile(db_results, execution_logs, durations))

\* Both tasks stored a record, and the first dropped or replaced a duplicate.
C17_Witness ==
    /\ pc = "merged"
    /\ task_results[1] # <<>>
    /\ task_results[2] # <<>>
    /\ Len(TaskRows(1)) > Len(task_results[1])
    /\ Len(merged_results) = 2

\* The loop of get_full_report_data_from_db leaves the dict reconcile
\* computes.
C17_LoopIsReconcile ==
    pc \in {"rows", "returned"} =>
        test_results_by_name =
            reconcile(SubSeq(db_results, 1, row_idx), execution_logs, durations)

\* A row the loop stores or compares: it has a name and converts.
WellFormed(db_row) ==
    /\ Truthy(db_row.testcaseName)
    /\ ~db_row_to_test_result_raises(db_row)

\* The loop is at a row without a name or at a row whose conversion raises.
AtMalformedRow ==
    /\ pc = "rows"
    /\ row_idx < Len(db_results)
    /\ ~WellFormed(CurrentRow)

\* C18: a row without a testcaseName, and a row whose conversion raises,
\* leaves the dict as it is and the loop goes on to the next row; the
\* function returns after the last row, and the records returned are those
\* of the well-formed rows alone.
C18_MalformedRowsSkipped ==
    /\ [][AtMalformedRow =>
             /\ test_results_by_name' = test_results_by_name
             /\ row_idx' = row_idx + 1
             /\ pc' = "rows"]_vars
    /\ [](pc = "returned" =>
             /\ row_idx = Len(db_results)
             /\ test_results =
                    DictValues(reconcile(SelectSeq(db_results, WellFormed),
                                         execution_logs, durations))
             /\ \A i \in 1..Len(db_results) :
                    WellFormed(db_results[i]) =>
                        DictHas(test_results_by_name, db_results[i].testcaseName))

\* A row without a name, then a row whose conversion raises, then a
\* well-formed row: its record is the one returned.
C18_Witness ==
    /\ pc = "returned"
    /\ Len(db_results) = 3
    /\ ~Truthy(db_results[1].testcaseName)
    /\ Truthy(db_results[2].testcaseName)
    /\ db_row_to_test_result_raises(db_results[2])
    /\ WellFormed(db_results[3])
    /\ Len(test_results) = 1
    /\ test_results[1].method_name = <<"t">>

\* Some row of the input carries a testcaseName.
SomeUsableIdentity ==
    \E i \in 1..Len(db_results) : Truthy(db_results[i].testcaseName)

\* C19: the function returns a result only when some row of the input
\* carries a usable identity; an input without one ends in a failure raised
\* to the caller.
C19_NoIdentityNeverReturns ==
    (pc = "returned" /\ db_results # <<>>) => SomeUsableIdentity

\* What the function does with such an input: it returns the empty list.
C19_ReturnsEmptyWithoutIdentity ==
    (pc = "returned" /\ db_results # <<>> /\ ~SomeUsableIdentity)
        => test_results = <<>>

\* The records of a list that carry a log.
WithLog(records) == {i \in 1..Len(records) : Truthy(records[i].execution_log)}

\* C26: a row that collides with a stored entry resolves to the entry's log
\* and duration, so the collision is never decided by the row having a log
\* that the entry lacks: the entry is replaced exactly when the row is FAIL
\* or ERROR and the entry is PASS.  The counter of matched logs is the number
\* of stored records with a log, and of returned records at the end.
C26_CollisionsDecidedByStatusAlone ==
    /\ AtDuplicate =>
           LET existing == DictGet(test_results_by_name, CurrentRow.testcaseName)
           IN  /\ existing.execution_log = CurrentLog
               /\ existing.duration_seconds = CurrentResult.duration_seconds
               /\ ~(Truthy(CurrentLog) /\ ~Truthy(existing.execution_log))
               /\ should_replace(CurrentLog, CurrentResult, existing)
                      <=> (CurrentResult.status \in {FAIL, ERROR} /\ existing.status = PASS)
    /\ pc \in {"rows", "returned"} =>
           matched_logs = Cardinality(WithLog(DictValues(test_results_by_name)))
    /\ pc = "returned" => matched_logs = Cardinality(WithLog(test_results))

\* The function has returned after a failing row replaced a passing entry of
\* the same testcaseName, both with the log of the test.
C26_Witness ==
    /\ pc = "returned"
    /\ matched_logs = 1
    /\ Len(test_results) = 1
    /\ test_results[1].status \in {FAIL, ERROR}
    /\ Truthy(test_results[1].execution_log)
    /\ \E i, j \in 1..Len(db_results) :
           /\ i < j
           /\ db_results[i].testcaseName = db_results[j].testcaseName
           /\ db_results[i].testStatus = s_PASSED
           /\ db_results[j].testStatus \in {s_failed, s_ERROR}

(***************************************************************************)
(* TestNameNormalizer.find_matching_test: the first record of a list that  *)
(* one of three strategies matches against the searched name.              *)
(***************************************************************************)
\* The class.method string of strategy 3.
class_method_last_class(result) ==
    LET parts == split(result.class_name)
    IN  parts[Len(parts)] \o <<".">> \o result.method_name

class_method(result) ==
    remove_duplicate_class_name(result.class_name) \o <<".">> \o result.method_name

\* The body of the loop: TRUE when one of the three strategies returns result.
result_matches(name_searched, normalized_search, result) ==
    LET result_full_name == full_name(result)
        result_class_name == result.class_name
        result_method_name == result.method_name
    IN  \/ match(name_searched, result_full_name)
        \/ normalize(result_full_name) = normalized_search
        \/ /\ Truthy(result_class_name)
           /\ Truthy(result_method_name)
           /\ match(name_searched, class_method(result))

\* The position of the record the loop returns, 0 when it runs to its end.
RECURSIVE first_matching_index(_, _, _, _)
first_matching_index(name_searched, normalized_search, results, i) ==
    IF i > Len(results) THEN 0
    ELSE IF result_matches(name_searched, normalized_search, results[i]) THEN i
    ELSE first_matching_index(name_searched, normalized_search, results, i + 1)

find_matching_test(name_searched, results) ==
    LET normalized_search == normalize(name_searched)
        i == first_matching_index(name_searched, normalized_search, results, 1)
    IN  IF i = 0 THEN None ELSE results[i]

MaxResults == 2

ResultClassNames == {<<"f">>, <<"g", ".", "f">>, <<"f", ".", "f">>, <<>>}
ResultMethodNames == {<<"t">>, <<"f">>}
TestResults == [class_name : ResultClassNames, method_name : ResultMethodNames]
SearchNames ==
    {<<"f", ".", "t">>, <<"g", ".", "f", ".", "t">>, <<"f", ".", "f", ".", "t">>,
     <<" ", "f", ".", "t", " ">>, <<"t">>, <<"f">>}

InitMatch ==
    /\ pc = "searching"
    /\ search_name \in SearchNames
    /\ result_list \in SeqsUpTo(TestResults, MaxResults)
    /\ matching_test = None
    /\ NormalizerIdle
    /\ ReconcilerIdle
    /\ HistoryIdle
    /\ EngineIdle
    /\ IsolatorIdle
    /\ TasksIdle
    /\ BatchIdle
    /\ TableIdle
    /\ PatternIdle
    /\ StatusIdle

\* matching_test = find_matching_test(test_name, test_results), and the
\* caller's test "if matching_test:".
FindMatchingTest ==
    /\ pc = "searching"
    /\ matching_test' = find_matching_test(search_name, result_list)
    /\ pc' = IF first_matching_index(search_name, normalize(search_name),
                                     result_list, 1) = 0
             THEN "not_matched" ELSE "matched"
    /\ UNCHANGED <<search_name, result_list>>
    /\ UNCHANGED <<normalizerVars, reconcilerVars, historyVars, engineVars,
                   isolatorVars,
                   taskVars,
                   batchVars,
                   tableVars,
                   patternVars,
                   statusVars>>

NextMatch == FindMatchingTest

SpecMatch == InitMatch /\ [][NextMatch]_vars

\* The records of the list whose full name normalizes to the searched name.
ExactMatches ==
    {i \in 1..Len(result_list) :
        normalize(full_name(result_list[i])) = normalize(search_name)}

\* The records that match through their class.method reconstruction.
ClassMethodMatches ==
    {i \in 1..Len(result_list) :
        /\ Truthy(result_list[i].class_name)
        /\ Truthy(result_list[i].method_name)
        /\ normalize(class_method(result_list[i])) = normalize(search_name)}

\* C15: when some record's normalized full name equals the normalized
\* searched name, the record returned is such an exact match; when no record
\* matches by full name or by class.method, None is returned.
C15_ExactMatchTrusted ==
    pc \in {"matched", "not_matched"} =>
        /\ ExactMatches # {} =>
              /\ pc = "matched"
              /\ normalize(full_name(matching_test)) = normalize(search_name)
        /\ ExactMatches \cup ClassMethodMatches = {} =>
              /\ pc = "not_matched"
              /\ matching_test = None

\* An exact match stands behind a record that is no exact match, and is
\* the record returned.
C15_Witness ==
    /\ pc = "matched"
    /\ Len(result_list) = 2
    /\ ExactMatches = {2}
    /\ matching_test = result_list[2]

\* No record matches through class.method alone: the reconstruction is the
\* string full_name is built from.
C15_ClassMethodIsFullName ==
    ClassMethodMatches \subseteq ExactMatches

(***************************************************************************)
(* The engine in main: one CategoryRuleEngine and one TestDataCache, and   *)
(* classify called for the deduplicated failures.                          *)
(***************************************************************************)
MaxCalls == 3

\* TestDataCache.get_combined_log
get_combined_log(cache, name_of_test) ==
    LET normalized_name == normalize(name_of_test)
    IN  IF DictHas(cache, normalized_name) THEN DictGet(cache, normalized_name)
        ELSE ""

\* What the rules read of a failure: its fields and its combined log.
failure_with_log(classification, cache) ==
    [root_cause_category |-> classification.root_cause_category,
     root_cause |-> classification.root_cause,
     recommended_action |-> classification.recommended_action,
     combined_log |-> get_combined_log(cache, classification.test_name)]

n_t1 == <<"t", "1">>
n_t2 == <<"t", "2">>

BatchPreTags == {"NETWORK_ISSUE", "TIMEOUT"}
BatchRootCauses == {"", "TimeoutException: script timeout"}
BatchLogs ==
    { "",
      "Element 'HomePage:submit' is NOT visible even after waiting for 30 seconds" }

Classification(name_of_test) ==
    [test_name : {name_of_test}, root_cause_category : BatchPreTags,
     root_cause : BatchRootCauses, recommended_action : {"Manual review required"}]

InitBatch ==
    /\ pc = "classifying"
    /\ deduplicated_classifications \in
           {<<c1, c2>> : c1 \in Classification(n_t1), c2 \in Classification(n_t2)}
    /\ test_data_cache \in
           {<<[key |-> n_t1, value |-> l1], [key |-> n_t2, value |-> l2]>> :
                l1 \in BatchLogs, l2 \in BatchLogs}
    /\ engine_rules = rules
    /\ returned_categories = <<>>
    /\ NormalizerIdle
    /\ ReconcilerIdle
    /\ HistoryIdle
    /\ EngineIdle
    /\ IsolatorIdle
    /\ MatcherIdle
    /\ TasksIdle
    /\ TableIdle
    /\ PatternIdle
    /\ StatusIdle

\* Mutant of ClassifyFailure: the category is written back to the failure.
ClassifyFailureWritingBack(i) ==
    /\ pc = "classifying"
    /\ Len(returned_categories) < MaxCalls
    /\ LET failure_read == deduplicated_classifications[i]
           returned == classify(failure_with_log(failure_read, test_data_cache))
       IN  /\ returned_categories' =
                  Append(returned_categories,
                         [failure |-> failure_read, category |-> returned])
           /\ deduplicated_classifications' =
                  [deduplicated_classifications EXCEPT
                      ![i].root_cause_category = returned]
    /\ UNCHANGED <<pc, test_data_cache, engine_rules>>
    /\ UNCHANGED <<normalizerVars, reconcilerVars, historyVars, engineVars,
                   isolatorVars, matcherVars, taskVars,
                   tableVars,
                   patternVars,
                   statusVars>>

\* category = rule_engine.classify(failure, test_data_cache): classify reads
\* the failure, the cache and self.rules, and assigns only to its locals.
ClassifyFailure(i) ==
    /\ pc = "classifying"
    /\ Len(returned_categories) < MaxCalls
    /\ LET failure_read == deduplicated_classifications[i]
           returned == classify(failure_with_log(failure_read, test_data_cache))
       IN  returned_categories' =
               Append(returned_categories,
                      [failure |-> failure_read, category |-> returned])
    /\ UNCHANGED <<pc, deduplicated_classifications, test_data_cache, engine_rules>>
    /\ UNCHANGED <<normalizerVars, reconcilerVars, historyVars, engineVars,
                   isolatorVars, matcherVars, taskVars,
                   tableVars,
                   patternVars,
                   statusVars>>

NextBatch == \E i \in 1..Len(deduplicated_classifications) : ClassifyFailure(i)

SpecBatch == InitBatch /\ [][NextBatch]_vars

\* C20: a call of classify leaves the failures, the cache and the rule list
\* as they were, and the calls for one failure return one category, the one
\* classify computes from the failure and the cache, whatever the order of
\* the calls.
C20_ClassifyIsPure ==
    /\ [][/\ deduplicated_classifications' = deduplicated_classifications
          /\ test_data_cache' = test_data_cache
          /\ engine_rules' = engine_rules]_vars
    /\ [](pc = "classifying" =>
             /\ engine_rules = rules
             /\ \A a, b \in 1..Len(returned_categories) :
                    returned_categories[a].failure.test_name
                        = returned_categories[b].failure.test_name
                    => returned_categories[a].category
                           = returned_categories[b].category
             /\ \A a \in 1..Len(returned_categories) :
                    \E i \in 1..Len(deduplicated_classifications) :
                        /\ returned_categories[a].failure
                               = deduplicated_classifications[i]
                        /\ returned_categories[a].category =
                               classify(failure_with_log(
                                   deduplicated_classifications[i], test_data_cache)))

\* The second failure was classified, then the first, then the second again,
\* and a rule changed the category of the pre-tagged second failure.
C20_Witness ==
    /\ pc = "classifying"
    /\ Len(returned_categories) = 3
    /\ returned_categories[1].failure.test_name = n_t2
    /\ returned_categories[2].failure.test_name = n_t1
    /\ returned_categories[3].failure.test_name = n_t2
    /\ returned_categories[3].category
           # returned_categories[3].failure.root_cause_category
    /\ returned_categories[2].category # returned_categories[3].category

(***************************************************************************)
(* Database.get_table_name_from_report_name (database.py): the table of a  *)
(* report, from its name.                                                  *)
(***************************************************************************)
Letters == Range(LowerLetters) \cup Range(UpperLetters)
letters_plus == cls(Letters, FALSE, 1, TRUE)

\* r'Regression-([A-Za-z]+)-'
re_regression_project_dash == <<lit("Regression-"), letters_plus, lit("-")>>
\* r'ProdSanity-'
re_prodsanity == <<lit("ProdSanity-")>>
\* r'Regression-([A-Za-z]+)'
re_regression_project == <<lit("Regression-"), letters_plus>>

\* Mutant of table_name_pattern: the fallback pattern is left out.
table_name_pattern_without_fallback(name_of_report) ==
    IF name_of_report = "" THEN 0
    ELSE IF re_match(re_regression_project_dash, name_of_report, FALSE).found THEN 1
    ELSE IF re_match(re_prodsanity, name_of_report, FALSE).found THEN 2
    ELSE 0

\* The pattern the function returns from: 1, 2, 3 (the fallback), or 0 when
\* it returns None.
table_name_pattern(name_of_report) ==
    IF name_of_report = "" THEN 0
    ELSE IF re_match(re_regression_project_dash, name_of_report, FALSE).found THEN 1
    ELSE IF re_match(re_prodsanity, name_of_report, FALSE).found THEN 2
    ELSE IF re_match(re_regression_project, name_of_report, FALSE).found THEN 3
    ELSE 0

get_table_name_from_report_name(name_of_report) ==
    LET pattern == table_name_pattern(name_of_report)
    IN  CASE pattern = 1 ->
                LET hit == re_match(re_regression_project_dash, name_of_report, FALSE)
                    project_name ==
                        str_lower(Slice(name_of_report,
                                        hit.start + Len("Regression-"), hit.end - 1))
                IN  "results_" \o project_name
          [] pattern = 2 -> "results_prodsanity"
          [] pattern = 3 ->
                LET hit == re_match(re_regression_project, name_of_report, FALSE)
                    project_name ==
                        str_lower(Slice(name_of_report,
                                        hit.start + Len("Regression-"), hit.end))
                IN  "results_" \o project_name
          [] OTHER -> None

NamePrefixes == {"", "Nightly-", "x"}
NameMarkers == {"", "Regression-", "ProdSanity-", "Regression", "regression-", "Invalid-"}
NameProjects == {"", "AccountOpening", "Payment", "Pay2", "Report"}
NameSuffixes == {"", "-", "-Tests-420", "-ProdSanity-1", "-Regression-All-7"}

ReportNames ==
    {p \o m \o j \o s :
        p \in NamePrefixes, m \in NameMarkers, j \in NameProjects, s \in NameSuffixes}

InitTable ==
    /\ pc = "report"
    /\ report_name \in ReportNames
    /\ table_name = None
    /\ NormalizerIdle
    /\ ReconcilerIdle
    /\ HistoryIdle
    /\ EngineIdle
    /\ IsolatorIdle
    /\ MatcherIdle
    /\ TasksIdle
    /\ BatchIdle
    /\ PatternIdle
    /\ StatusIdle

\* table_name = self._get_table_name_from_report_name(report_name), and the
\* caller's test "if not table_name".
GetTableName ==
    /\ pc = "report"
    /\ table_name' = get_table_name_from_report_name(report_name)
    /\ pc' = IF table_name_pattern(report_name) = 0 THEN "no_table" ELSE "table"
    /\ UNCHANGED report_name
    /\ UNCHANGED <<normalizerVars, reconcilerVars, historyVars, engineVars,
                   isolatorVars, matcherVars, taskVars, batchVars,
                   patternVars,
                   statusVars>>

NextTable == GetTableName

SpecTable == InitTable /\ [][NextTable]_vars

\* The letters that follow 'Regression-' at position i (1-based) of text.
LettersAfter(text, i) ==
    LET from == i + Len("Regression-")
        run == {n \in from..(Len(text) + 1) :
                    \A m \in from..(n - 1) : char_at(text, m) \in Letters}
    IN  IF SetMax(run) = from THEN "" ELSE SubSeq(text, from, SetMax(run) - 1)

\* The positions at which 'Regression-', letters and then rest begin.
RegressionAt(text, rest) ==
    {i \in 1..Len(text) :
        /\ i + Len("Regression-") - 1 <= Len(text)
        /\ SubSeq(text, i, i + Len("Regression-") - 1) = "Regression-"
        /\ LettersAfter(text, i) # ""
        /\ LET after == i + Len("Regression-") + Len(LettersAfter(text, i))
           IN  \/ rest = ""
               \/ /\ after + Len(rest) - 1 <= Len(text)
                  /\ SubSeq(text, after, after + Len(rest) - 1) = rest}

Mapped == pc \in {"table", "no_table"}

\* C21: 'Regression-<letters>-' gives 'results_' and the letters in lower
\* case, 'ProdSanity-' without it gives 'results_prodsanity', and every other
\* name gives None.
C21_NoneUnlessDashedPattern ==
    Mapped =>
        IF RegressionAt(report_name, "-") # {}
            THEN /\ pc = "table"
                 /\ table_name = "results_" \o
                        str_lower(LettersAfter(report_name,
                                               SetMin(RegressionAt(report_name, "-"))))
        ELSE IF In("ProdSanity-", report_name)
            THEN pc = "table" /\ table_name = "results_prodsanity"
        ELSE pc = "no_table" /\ table_name = None

\* C21 as amended: as above, and a name with 'Regression-<letters>' that no
\* '-' follows, and no 'ProdSanity-', gives 'results_' and those letters.
C21_NoneUnlessAnyPattern ==
    Mapped =>
        IF RegressionAt(report_name, "-") # {}
            THEN /\ pc = "table"
                 /\ table_name = "results_" \o
                        str_lower(LettersAfter(report_name,
                                               SetMin(RegressionAt(report_name, "-"))))
        ELSE IF In("ProdSanity-", report_name)
            THEN pc = "table" /\ table_name = "results_prodsanity"
        ELSE IF RegressionAt(report_name, "") # {}
            THEN /\ pc = "table"
                 /\ table_name = "results_" \o
                        str_lower(LettersAfter(report_name,
                                               SetMin(RegressionAt(report_name, ""))))
        ELSE pc = "no_table" /\ table_name = None

\* A name that ends in 'Regression-<letters>' got its table by the fallback.
C21_Witness ==
    /\ pc = "table"
    /\ report_name = "Nightly-Regression-Payment"
    /\ table_name = "results_payment"

StartPhrasesByPriority ==
    <<"Method arguments:", "Execution started for testcase",
      "Execution started for test", "Test Case Details">>

\* The phrases that occur in the text, by their place in the order; the
\* text and the phrases are compared in lower case.
PhrasesPresent(lowered) ==
    {k \in 1..4 : In(str_lower(StartPhrasesByPriority[k]), lowered)}

PhraseOffset(k, lowered) == OffsetOf(str_lower(StartPhrasesByPriority[k]), lowered)

\* C24: the span starts at the first occurrence of the first phrase of the
\* priority order that occurs in the blob, wherever the phrases after it in
\* the order occur, and at index 0 when none occurs.
C24_StartIsHighestPriorityPhrase ==
    Extracted =>
        LET lowered == str_lower(full_log)
            present == PhrasesPresent(lowered)
        IN  IF present # {} THEN start_idx = PhraseOffset(SetMin(present), lowered)
            ELSE start_idx = 0

\* A phrase of lower priority occurs before the phrase the span starts at.
C24_Witness ==
    /\ Extracted
    /\ LET lowered == str_lower(full_log)
           present == PhrasesPresent(lowered)
       IN  /\ present # {}
           /\ start_idx = PhraseOffset(SetMin(present), lowered)
           /\ \E k \in present :
                  /\ k > SetMin(present)
                  /\ PhraseOffset(k, lowered) < PhraseOffset(SetMin(present), lowered)

\* C29: when 'EXECUTION OF TESTCASE ENDS HERE' occurs after the start of
\* the span and a next-test start marker ('Method arguments:' or
\* 'Execution started for testcase') occurs after it, the span ends no later
\* than the first such marker.
C29_SpanEndsBeforeNextTest ==
    Extracted =>
        LET remaining_log == Slice(full_log, start_idx, Len(full_log))
            execution_end == re_match(re_execution_of_testcase_ends_here,
                                      remaining_log, TRUE)
            execution_end_pos == start_idx + execution_end.end
            next_test == re_match(re_next_test,
                                  Slice(full_log, execution_end_pos, Len(full_log)),
                                  TRUE)
        IN  (execution_end.found /\ next_test.found) =>
                Min(end_idx, Len(full_log)) <= execution_end_pos + next_test.start

(***************************************************************************)
(* Failure patterns (AgentMemory._detect_recurring_failures_from_db,       *)
(* utils.normalize_root_cause) and the order in which the report lists     *)
(* the recurring failures (ReportGenerator).  An execution is a row with   *)
(* its id, testStatus and failureReason; failure reasons are strings.      *)
(***************************************************************************)
MaxPatternRows == 2

FailureReasons == {"", "Timeout after 40 seconds", "Timeout after 41 seconds",
                   "Element not found"}

\* \b\d+\.?\d*\s*(seconds?|minutes?|hours?|ms|milliseconds?)\b
re_duration ==
    <<word_boundary, digits_plus, cls({"."}, FALSE, 0, FALSE), digits_star,
      ws_star,
      alt({"second", "seconds", "minute", "minutes", "hour", "hours", "ms",
           "millisecond", "milliseconds"}),
      word_boundary>>

\* re.sub(pattern, repl, text) from the 1-based position from on: every hit,
\* leftmost first, is replaced.
RECURSIVE re_sub_from(_, _, _, _)
re_sub_from(re, repl, text, from) ==
    LET starts == {i \in from..(Len(text) + 1) : MatchFrom(re, 1, text, i)}
    IN  IF starts = {}
            THEN IF from > Len(text) THEN "" ELSE SubSeq(text, from, Len(text))
        ELSE LET first == SetMin(starts)
                 end == SetMax(MatchEnds(re, 1, text, first))
             IN  (IF first = from THEN "" ELSE SubSeq(text, from, first - 1))
                 \o repl \o re_sub_from(re, repl, text, end)

re_sub(re, repl, text) == re_sub_from(re, repl, text, 1)

\* normalize_root_cause: the text is lowered, the durations are replaced and
\* the result is cut to 200 characters.  The other substitutions (URLs,
\* dates, times, testcase names, page elements, missing keys, endpoints,
\* status codes, ids, e-mail addresses) and the joining of whitespace find
\* nothing to replace in the reasons of FailureReasons.
normalize_root_cause(root_cause) ==
    IF root_cause = "" THEN ""
    ELSE LET replaced == re_sub(re_duration, "[DURATION]", str_lower(root_cause))
         IN  SubSeq(replaced, 1, Min(200, Len(replaced)))

\* The details loop's test of an execution (lines 622-628): the status is
\* not stripped, and an execution without a status but with a failure
\* reason is a failure.
IsFailureForDetails(exec_record) ==
    IF Truthy(exec_record.testStatus)
        THEN upper(exec_record.testStatus) \in FailureWords
        ELSE exec_record.failureReason # ""

\* failure_details[test_name]['root_causes'] (lines 639-640)
root_causes(executions) ==
    LET failed == SelectSeq(executions, IsFailureForDetails)
    IN  [i \in 1..Len(failed) |-> failed[i].failureReason]

\* Lines 743-745: the distinct normalized root causes, empty ones left out.
normalized_root_causes(rcs) ==
    {normalize_root_cause(rc) : rc \in {rcs[i] : i \in 1..Len(rcs)} \ {""}}

unique_root_causes(rcs) == Cardinality(normalized_root_causes(rcs))

\* _categorize_failure_pattern (lines 1080-1106); different_reasons is not
\* read.
categorize_failure_pattern(is_intermittent, same_reason, different_reasons) ==
    IF is_intermittent
        THEN IF same_reason THEN "Intermittently failing due to same reason"
             ELSE "Intermittently failing but different reasons"
        ELSE IF same_reason THEN "Continuously failing due to same reason"
             ELSE "Continuously failing but different reasons"

\* Lines 736-740
IsIntermittent(history) == 1 \in Range(history) /\ 0 \in Range(history)

\* Mutant of pattern_entry: is_intermittent is read off the stored
\* executions instead of the final history vector.
pattern_entry_from_executions(test_name, count, executions, rcs) ==
    LET e == recurring_entry(test_name, count, executions)
        is_intermittent == IsIntermittent(raw_history(executions))
        unique == unique_root_causes(rcs)
        same_reason == unique = 1
        different_reasons == unique > 1
    IN  [test_name |-> e.test_name,
         occurrences |-> e.occurrences,
         history |-> e.history,
         execution_details |-> e.execution_details,
         failure_pattern |->
            categorize_failure_pattern(is_intermittent, same_reason, different_reasons),
         same_reason |-> same_reason,
         different_reasons |-> different_reasons,
         unique_root_causes |-> unique]

\* The entry appended to recurring (lines 824-838) with its pattern
\* (lines 736-754).
pattern_entry(test_name, count, executions, rcs) ==
    LET e == recurring_entry(test_name, count, executions)
        is_intermittent == IsIntermittent(e.history)
        unique == unique_root_causes(rcs)
        same_reason == unique = 1
        different_reasons == unique > 1
    IN  [test_name |-> e.test_name,
         occurrences |-> e.occurrences,
         history |-> e.history,
         execution_details |-> e.execution_details,
         failure_pattern |->
            categorize_failure_pattern(is_intermittent, same_reason, different_reasons),
         same_reason |-> same_reason,
         different_reasons |-> different_reasons,
         unique_root_causes |-> unique]

\* failure_counts / failure_details after the first loop (lines 594-643):
\* the tests whose failure count reaches min_occ, with their root causes.
collect_failure_details(history_dict, min_occ) ==
    LET Counted(item) == failure_count(item.value) >= min_occ
        kept == SelectSeq(history_dict, Counted)
    IN  [i \in 1..Len(kept) |->
            [key |-> kept[i].key, value |-> root_causes(kept[i].value)]]

\* _detect_recurring_failures_from_db over the dict of the database: one
\* entry per test of failure_counts, then the filter of lines 845-853.
detect_recurring_failures_from_db(history_dict, min_occ) ==
    LET details == collect_failure_details(history_dict, min_occ)
        entries == [i \in 1..Len(details) |->
                      LET executions == DictGet(history_dict, details[i].key)
                      IN  pattern_entry(details[i].key, failure_count(executions),
                                        executions, details[i].value)]
        Recurring(entry) == entry.occurrences >= min_occ
    IN  SelectSeq(entries, Recurring)

\* get_pattern_severity (report_generator.py:2733-2750)
get_pattern_severity(pattern) ==
    LET pattern_lower == str_lower(pattern)
    IN  IF In("continuously failing due to same reason", pattern_lower) THEN 4
        ELSE IF In("continuously failing but different reasons", pattern_lower) THEN 3
        ELSE IF In("intermittently failing due to same reason", pattern_lower) THEN 2
        ELSE IF In("intermittently failing but different reasons", pattern_lower) THEN 1
        ELSE 0

\* sort_key (report_generator.py:2752-2761)
sort_key(failure_entry) ==
    <<0 - failure_entry.occurrences,
      0 - get_pattern_severity(failure_entry.failure_pattern)>>

\* sorted(s, key=...), keys[i] being the key of s[i]: ascending and stable.
sorted(s, keys) ==
    LET pos(i) == 1 + Cardinality({j \in 1..Len(s) : KeyLess(keys[j], keys[i])})
                    + Cardinality({j \in 1..(i - 1) : keys[j] = keys[i]})
    IN  [p \in 1..Len(s) |-> s[CHOOSE i \in 1..Len(s) : pos(i) = p]]

(***************************************************************************)
(* Specification of the patterns: the database returns the executions of   *)
(* two tests, newest first and at most FLAKY_TESTS_LAST_RUNS of each; the  *)
(* recurring failures are detected and the report sorts them.              *)
(***************************************************************************)
RowKinds ==
    {[testStatus |-> s_FAILED, failureReason |-> r] : r \in FailureReasons}
    \cup {[testStatus |-> s_failed, failureReason |-> "Element not found"],
          [testStatus |-> None, failureReason |-> "Element not found"],
          [testStatus |-> None, failureReason |-> ""],
          [testStatus |-> s_PASSED, failureReason |-> ""],
          [testStatus |-> s_bogus, failureReason |-> ""]}

passed_row == [testStatus |-> s_PASSED, failureReason |-> ""]
timeout_row == [testStatus |-> s_FAILED, failureReason |-> "Timeout after 40 seconds"]
element_row == [testStatus |-> s_FAILED, failureReason |-> "Element not found"]

Repeat(row, n) == [i \in 1..n |-> row]

\* The newest executions of the first test, and the older ones.
NewestRows == UNION {[1..n -> RowKinds] : n \in 0..MaxPatternRows}
OlderRows == {<<>>, Repeat(passed_row, 9) \o Repeat(timeout_row, 2),
              Repeat(timeout_row, 9)}

\* The executions of the second test.
SecondTestRows == {<<timeout_row, timeout_row>>,
                   <<timeout_row, element_row>>,
                   Repeat(timeout_row, 10)}

PatternWindowSizes == {10, 12}
PatternMinOccurrences == {1, 2}

\* The rows with their ids: the newest row has the largest id.
WithIds(rows) ==
    [i \in 1..Len(rows) |->
        [id |-> Len(rows) + 1 - i, testStatus |-> rows[i].testStatus,
         failureReason |-> rows[i].failureReason]]

\* The dict the query returns: a test without rows is no key of it.
HistoryDict(first_rows, second_rows, limit_per_test) ==
    (IF first_rows = <<>> THEN <<>>
     ELSE <<[key |-> n_t1,
             value |-> limited_rows(WithIds(first_rows), limit_per_test)]>>)
    \o <<[key |-> n_t2,
          value |-> limited_rows(WithIds(second_rows), limit_per_test)]>>

InitPatterns ==
    /\ pc = "history"
    /\ FLAKY_TESTS_LAST_RUNS \in PatternWindowSizes
    /\ min_occurrences \in PatternMinOccurrences
    /\ table_rows = <<>>
    /\ recurring = None
    /\ \E newest \in NewestRows, older \in OlderRows, second \in SecondTestRows :
           stored_history = HistoryDict(newest \o older, second, FLAKY_TESTS_LAST_RUNS)
    /\ failure_details = <<>>
    /\ recurring_failures = <<>>
    /\ sorted_recurring_failures = <<>>
    /\ NormalizerIdle
    /\ ReconcilerIdle
    /\ EngineIdle
    /\ IsolatorIdle
    /\ MatcherIdle
    /\ TasksIdle
    /\ BatchIdle
    /\ TableIdle
    /\ StatusIdle

\* _detect_recurring_failures_from_db
DetectFailurePatterns ==
    /\ pc = "history"
    /\ failure_details' = collect_failure_details(stored_history, min_occurrences)
    /\ recurring_failures' =
           detect_recurring_failures_from_db(stored_history, min_occurrences)
    /\ pc' = "detected"
    /\ UNCHANGED <<stored_history, sorted_recurring_failures>>
    /\ UNCHANGED <<normalizerVars, reconcilerVars, historyVars, engineVars,
                   isolatorVars, matcherVars, taskVars, batchVars, tableVars,
                   statusVars>>

\* The report: sorted_recurring_failures = sorted(recurring_failures,
\* key=sort_key)
SortRecurringFailures ==
    /\ pc = "detected"
    /\ sorted_recurring_failures' =
           sorted(recurring_failures,
                  [i \in 1..Len(recurring_failures) |-> sort_key(recurring_failures[i])])
    /\ pc' = "rendered"
    /\ UNCHANGED <<stored_history, failure_details, recurring_failures>>
    /\ UNCHANGED <<normalizerVars, reconcilerVars, historyVars, engineVars,
                   isolatorVars, matcherVars, taskVars, batchVars, tableVars,
                   statusVars>>

NextPatterns == DetectFailurePatterns \/ SortRecurringFailures

SpecPatterns == InitPatterns /\ [][NextPatterns]_vars

\* The raw failure count of an entry: the failures among the executions the
\* database returned for its test.
RawFailureCount(entry) == failure_count(DictGet(stored_history, entry.test_name))

CountAndSeverity(entry) ==
    <<RawFailureCount(entry), get_pattern_severity(entry.failure_pattern)>>

\* C22: in the rendered order the recurring failures descend by raw failure
\* count and, among equal counts, by pattern severity: of two adjacent
\* entries the later one never has the larger (count, severity) pair.
C22_RenderedByRawCountThenSeverity ==
    pc = "rendered" =>
        \A i \in 1..(Len(sorted_recurring_failures) - 1) :
            ~KeyLess(CountAndSeverity(sorted_recurring_failures[i]),
                     CountAndSeverity(sorted_recurring_failures[i + 1]))

\* With the window of 10 elements the raw count is the recomputed count, and
\* the rendered order descends by it.
C22_RenderedByRawCountWhenWindowIsTen ==
    (pc = "rendered" /\ FLAKY_TESTS_LAST_RUNS = 10) =>
        \A i \in 1..(Len(sorted_recurring_failures) - 1) :
            ~KeyLess(CountAndSeverity(sorted_recurring_failures[i]),
                     CountAndSeverity(sorted_recurring_failures[i + 1]))

PatternLabels == {"Continuously failing due to same reason",
                  "Continuously failing but different reasons",
                  "Intermittently failing due to same reason",
                  "Intermittently failing but different reasons"}

StartsWith(text, prefix) ==
    Len(text) >= Len(prefix) /\ SubSeq(text, 1, Len(prefix)) = prefix

Detected == pc \in {"detected", "rendered"}

\* C25: every recurring entry carries one of the four pattern labels; the
\* label begins with "Intermittently failing" exactly when the entry's final
\* history vector holds both a 0 and a 1, and with "Continuously failing"
\* otherwise.
C25_IntermittentIffHistoryHasBoth ==
    Detected =>
        \A i \in 1..Len(recurring_failures) :
            LET entry == recurring_failures[i]
                both == 0 \in Range(entry.history) /\ 1 \in Range(entry.history)
            IN  /\ entry.failure_pattern \in PatternLabels
                /\ StartsWith(entry.failure_pattern, "Intermittently failing") <=> both
                /\ StartsWith(entry.failure_pattern, "Continuously failing") <=> ~both

\* Both kinds of entry are detected together: one whose vector is all
\* failures and one whose vector holds passes too.
C25_Witness ==
    /\ Detected
    /\ \E i, j \in 1..Len(recurring_failures) :
           /\ Range(recurring_failures[i].history) = {0}
           /\ StartsWith(recurring_failures[i].failure_pattern, "Continuously failing")
           /\ Range(recurring_failures[j].history) = {0, 1}
           /\ StartsWith(recurring_failures[j].failure_pattern, "Intermittently failing")

\* C27: for every test of failure_details the executions that contributed a
\* root cause are the executions counted in its raw failure count, so the
\* number of root causes collected equals that count.
C27_RootCausesAreTheCountedFailures ==
    Detected =>
        \A i \in 1..Len(failure_details) :
            LET executions == DictGet(stored_history, failure_details[i].key)
            IN  /\ \A k \in 1..Len(executions) :
                       IsFailureForDetails(executions[k]) <=> CountsAsFailure(executions[k])
                /\ Len(failure_details[i].value) = failure_count(executions)

\* C28: an entry labelled "... but different reasons" has different_reasons
\* set and at least two distinct normalized root causes, and an entry
\* labelled "... due to same reason" has exactly one.
C28_LabelAgreesWithRootCauses ==
    Detected =>
        \A i \in 1..Len(recurring_failures) :
            LET entry == recurring_failures[i]
            IN  /\ In("but different reasons", entry.failure_pattern) =>
                       entry.different_reasons /\ entry.unique_root_causes >= 2
                /\ In("due to same reason", entry.failure_pattern) =>
                       entry.same_reason /\ entry.unique_root_causes = 1

\* The statuses of the stored executions are plain: every loop of the
\* function reads them alike.
PlainStatuses ==
    \A i \in 1..Len(stored_history) :
        \A k \in 1..Len(stored_history[i].value) :
            stored_history[i].value[k].testStatus \in {s_FAILED, s_PASSED}

\* Among plain statuses too an entry without any failure reason is labelled
\* "... but different reasons".
C28_LabelAgreesWhenStatusesArePlain ==
    PlainStatuses => C28_LabelAgreesWithRootCauses

(***************************************************************************)
(* Specification of the status tokens: the testStatus of one stored        *)
(* execution is converted by db_row_to_test_result and read by the history *)
(* construction of _detect_recurring_failures_from_db.                     *)
(***************************************************************************)
MaxTokenLen == 4

TokenChars == {"f", "A", "I", "L", "O", "K", " "}

\* The tokens of the model: strings over TokenChars, the tokens of the
\* reconciler and of the history, and NULL.
Tokens == StringsUpTo(TokenChars, MaxTokenLen) \cup StatusTokens \cup {s_FAILED}

token_row(token) == [id |-> 1, testcaseName |-> n_f_t, testStatus |-> token]

InitStatus ==
    /\ pc = "token"
    /\ status_token \in Tokens
    /\ converted_status = ""
    /\ token_history = <<>>
    /\ token_failure_count = 0
    /\ NormalizerIdle
    /\ ReconcilerIdle
    /\ HistoryIdle
    /\ EngineIdle
    /\ IsolatorIdle
    /\ MatcherIdle
    /\ TasksIdle
    /\ BatchIdle
    /\ TableIdle
    /\ PatternIdle

\* Mutant of ConvertStatus: an unknown token raises instead of defaulting.
ConvertStatusStrict ==
    /\ pc = "token"
    /\ converted_status' =
           IF db_row_to_test_result_raises(token_row(status_token)) THEN "raised"
           ELSE IF strip(upper(status_token)) \notin FailureWords \cup PassWords
               THEN "raised"
           ELSE db_row_to_test_result(token_row(status_token), None, None).status
    /\ pc' = "converted"
    /\ UNCHANGED <<status_token, token_history, token_failure_count>>
    /\ UNCHANGED <<normalizerVars, reconcilerVars, historyVars, engineVars,
                   isolatorVars, matcherVars, taskVars, batchVars, tableVars,
                   patternVars>>

\* db_row_to_test_result on the row of the execution; the reconciler's loop
\* catches what it raises.
ConvertStatus ==
    /\ pc = "token"
    /\ converted_status' =
           IF db_row_to_test_result_raises(token_row(status_token)) THEN "raised"
           ELSE db_row_to_test_result(token_row(status_token), None, None).status
    /\ pc' = "converted"
    /\ UNCHANGED <<status_token, token_history, token_failure_count>>
    /\ UNCHANGED <<normalizerVars, reconcilerVars, historyVars, engineVars,
                   isolatorVars, matcherVars, taskVars, batchVars, tableVars,
                   patternVars>>

\* The first loop and the history loop of _detect_recurring_failures_from_db
\* on the one execution.
BuildHistory ==
    /\ pc = "converted"
    /\ token_failure_count' = failure_count(<<token_row(status_token)>>)
    /\ token_history' = raw_history(<<token_row(status_token)>>)
    /\ pc' = "history_built"
    /\ UNCHANGED <<status_token, converted_status>>
    /\ UNCHANGED <<normalizerVars, reconcilerVars, historyVars, engineVars,
                   isolatorVars, matcherVars, taskVars, batchVars, tableVars,
                   patternVars>>

NextStatus == ConvertStatus \/ BuildHistory

SpecStatus == InitStatus /\ [][NextStatus]_vars

\* The pass, fail, error and skip synonyms of db_row_to_test_result and of
\* the history construction.
RecognisedSynonyms ==
    PassWords \cup FailureWords
        \cup {<<"E", "R", "R", "O", "R", "E", "D">>, <<"S", "K", "I", "P">>,
              <<"S", "K", "I", "P", "P", "E", "D">>}

\* The execution has a status token and, upper-cased and stripped, it is none
\* of the synonyms.
Unrecognised ==
    status_token # None /\ strip(upper(status_token)) \notin RecognisedSynonyms

\* C23: an unrecognised status token is converted without raising into a
\* record of status PASS, the history construction writes 1 for it, and it
\* is not counted as a failure.
C23_UnrecognisedTokenIsPass ==
    Unrecognised =>
        /\ pc \in {"converted", "history_built"} => converted_status = PASS
        /\ pc = "history_built" => token_history = <<1>> /\ token_failure_count = 0

C23_Witness ==
    /\ pc = "history_built"
    /\ status_token = s_bogus
    /\ converted_status = PASS
    /\ token_history = <<1>>

(***************************************************************************)
(* Specification of the normalizer: a name is normalized, and the result   *)
(* is normalized again.                                                    *)
(***************************************************************************)
InitNormalize ==
    /\ pc = "start"
    /\ name \in Names
    /\ normalized = None
    /\ renormalized = None
    /\ ReconcilerIdle
    /\ HistoryIdle
    /\ EngineIdle
    /\ IsolatorIdle
    /\ MatcherIdle
    /\ TasksIdle
    /\ BatchIdle
    /\ TableIdle
    /\ PatternIdle
    /\ StatusIdle

Normalize ==
    /\ pc = "start"
    /\ normalized' = normalize(name)
    /\ pc' = "normalized"
    /\ UNCHANGED <<name, renormalized, reconcilerVars, historyVars, engineVars,
                   isolatorVars,
                   matcherVars,
                   taskVars,
                   batchVars,
                   tableVars,
                   patternVars,
                   statusVars>>

Renormalize ==
    /\ pc = "normalized"
    /\ renormalized' = normalize(normalized)
    /\ pc' = "renormalized"
    /\ UNCHANGED <<name, normalized, reconcilerVars, historyVars, engineVars,
                   isolatorVars,
                   matcherVars,
                   taskVars,
                   batchVars,
                   tableVars,
                   patternVars,
                   statusVars>>

NextNormalize == Normalize \/ Renormalize

SpecNormalize == InitNormalize /\ [][NextNormalize]_vars

\* C1: normalize is idempotent: normalizing an already normalized name
\* returns it unchanged, for every name.
C1_NormalizeIdempotent ==
    pc = "renormalized" => renormalized = normalized

\* The segments of the name and the positions whose segment equals the next.
Segments == split(name)
EqualPairs == {i \in 1..(Len(Segments) - 1) : Segments[i] = Segments[i + 1]}

\* The sequence without its element at position i.
Without(s, i) == SubSeq(s, 1, i - 1) \o SubSeq(s, i + 1, Len(s))

\* C14: a name with exactly one pair of equal adjacent segments is returned
\* with one segment of the pair removed and every other segment kept in
\* order, and a name without equal adjacent segments is returned unchanged,
\* both apart from the trimming of surrounding whitespace.
C14_OneRepeatCollapsed ==
    pc = "normalized" =>
        /\ Cardinality(EqualPairs) = 1 =>
               normalized = strip(join(Without(Segments, CHOOSE i \in EqualPairs : TRUE)))
        /\ EqualPairs = {} => normalized = strip(name)

\* C14 witness: "a.b.c.c.m" has been normalized to "a.b.c.m".
C14_Witness ==
    /\ pc = "normalized"
    /\ name = <<"a", ".", "b", ".", "c", ".", "c", ".", "m">>
    /\ Cardinality(EqualPairs) = 1
    /\ normalized = <<"a", ".", "b", ".", "c", ".", "m">>

====
